---- MODULE Spec2Model ----
(***************************************************************************)
(* pipejob: the step/job control-flow interpreter of RunWithArgs           *)
(* (src/main.go) with the job-list helpers resolveJobIndexExec             *)
(* (src/exec.go) and insertResumeJob (src/main.go).                        *)
(*                                                                         *)
(* Strings are sequences of tokens.  The ordinary tokens are "a", "b" and  *)
(* the white space " "; "{{v}}" is the placeholder of the variable v and   *)
(* "(" is a regular expression that does not compile.  Job names are       *)
(* sequences of name parts, so that the generated name of a resume job     *)
(* (job.Name + "-resume-" + nanoseconds) is the name with two parts        *)
(* appended.  Indices (ji, si, found) are 0-based as in the Go code; the   *)
(* sequences holding jobs and steps are 1-based.                           *)
(***************************************************************************)
EXTENDS Integers, Sequences, FiniteSets, TLC

VARIABLES
    allJobs,    \* p.Pipeline.Jobs
    runs,       \* p.Pipeline.Runs
    mode,       \* how the tool is started: "run", "dry" (--dry-run), "help",
                \* "usage" (an error of the arguments or of the YAML file),
                \* "live" (execution.mode: live)
    persistLogs, \* --persist-logs DIR was given
    logBuf,     \* the in-memory log buffer, a sequence of bytes
    appended,   \* history: the data of each appendToBuf, in order, when the
                \* buffer is exercised on its own (SpecLog)
    disk,       \* the log directory and run.log, and the notice on stderr
    sup,        \* the supervisor of one command (runLocalCommandExec)
    vars,       \* the variable environment
    pc,         \* position of RunWithArgs: "start", "order", "jobs", "steps",
                \* "done"
    rc,         \* the value RunWithArgs returned (NoRet while running)
    execJobs,   \* the working job list
    execCap,    \* capacity of the array backing execJobs
    ji,         \* job cursor
    si,         \* step cursor
    jobLive,    \* job (= &execJobs[ji]) points into the array backing execJobs
    jobIdx,     \* the slot job points to
    jobSnap,    \* the job it points to when the array was left behind
    stepIndex,  \* step name -> index of the current job
    clock,      \* time.Now().UnixNano()
    trace,      \* history: the steps whose commands were run, in order, and
                \* the rules each applied
    obs         \* history: what the last executed step did (ran: the last
                \* transition executed it)

vars_all == <<allJobs, runs, mode, persistLogs, logBuf, appended, disk, sup,
              vars, pc, rc, execJobs, execCap, ji, si,
              jobLive, jobIdx, jobSnap, stepIndex, clock, trace, obs>>

\* ---------------------------------------------------------------- bounds

\* The run is cut after this many executed steps (goto loops are unbounded).
MaxExec == 6
\* Longest list of legacy conditions and of when-rules of a step.
MaxRules == 2
\* const logCap, the capacity of the log buffer in bytes: 307200 in the
\* source, scaled down here so that the buffer overflows.  A token of a log
\* line counts as one byte.
logCap == 5
\* Number of appends when the buffer is exercised on its own.
MaxAppends == 4

\* ------------------------------------------------------------- constants

NoRet == -1
\* exit code recorded for a command killed by a timeout (exec.go)
TimeoutCode == 124
RcOk == 0
RcUsage == 2
RcLive == 3
RcUnsupported == 4
RcUnmatched == 5
RcTarget == 6
RcFail == 7

\* --------------------------------------------------------------- strings

Min(S) == CHOOSE x \in S : \A y \in S : x <= y
Max(S) == CHOOSE x \in S : \A y \in S : x >= y

\* strings.Contains
Contains(s, sub) ==
    \E i \in 0..(Len(s) - Len(sub)) : SubSeq(s, i + 1, i + Len(sub)) = sub

\* strings.TrimSpace
TrimSpace(s) ==
    LET keep == {i \in 1..Len(s) : s[i] # " "}
    IN  IF keep = {} THEN <<>> ELSE SubSeq(s, Min(keep), Max(keep))

\* The four placeholder spellings interpolate replaces for a key.
Placeholders(k) ==
    IF k = "v" THEN {"{{v}}", "{{ v }}", "{{.v}}", "{{ .v }}"} ELSE {}

RECURSIVE ReplaceTokens(_, _, _)
\* strings.ReplaceAll of every placeholder token in phs by the value val
ReplaceTokens(s, phs, val) ==
    IF s = <<>> THEN <<>>
    ELSE (IF Head(s) \in phs THEN val ELSE <<Head(s)>>)
         \o ReplaceTokens(Tail(s), phs, val)

RECURSIVE InterpolateKeys(_, _, _)
InterpolateKeys(res, env, keys) ==
    IF keys = {} THEN res
    ELSE LET k == CHOOSE x \in keys : TRUE
         IN  InterpolateKeys(ReplaceTokens(res, Placeholders(k), env[k]),
                             env, keys \ {k})

\* interpolate: every placeholder of every key of the environment is replaced
\* by the key's value.  The values of the model hold no placeholder, so the
\* order in which the map is walked does not change the result.
Interpolate(tmpl, env) ==
    IF tmpl = <<>> THEN tmpl ELSE InterpolateKeys(tmpl, env, DOMAIN env)

\* regexp.Compile: the pattern "(" is the one that does not compile.
RegexValid(pat) == \A i \in 1..Len(pat) : pat[i] # "("

\* re.MatchString for a pattern of literal tokens: an unanchored match.
RegexMatch(pat, s) == Contains(s, pat)

\* strings.ToLower on the step types of the model
ToLower(t) == IF t = "COMMAND" THEN "command" ELSE t

\* ------------------------------------------------------------ data model

\* A command line of a step: its text and what running it can give, a set of
\* [out, code] (captured output and exit code; the error is non-nil exactly
\* when the code is not 0, see runLocalCommandExec).
NoCmd == [text |-> <<>>, outcomes |-> {}]

\* The zero value of Step.
Step0 ==
    [name |-> "", type |-> "", command |-> NoCmd, commands |-> <<>>,
     save_output |-> "", silent |-> FALSE,
     conditions |-> <<>>, when |-> <<>>,
     else_action |-> "", else_step |-> "", else_job |-> <<>>,
     timeout |-> "", idle_timeout |-> "",
     on_timeout |-> "", on_timeout_step |-> "", on_timeout_job |-> <<>>]

\* The zero value of a legacy condition and of a when-rule (exit_code is a
\* pointer: hasExit says that it is not nil).
Cond0 == [pattern |-> <<>>, action |-> "", step |-> "", job |-> <<>>]
When0 ==
    [contains |-> <<>>, equals |-> <<>>, regex |-> <<>>,
     hasExit |-> FALSE, exit_code |-> 0,
     action |-> "", step |-> "", job |-> <<>>]

\* time.ParseDuration on the durations of the model
DurationValid(d) == d = "2s"

\* ------------------------------------------------------ working job list

Clamp(pos, n) == IF pos < 0 THEN 0 ELSE IF pos > n THEN n ELSE pos

\* Capacity append gives a grown slice of Job (runtime growslice: the needed
\* length if it exceeds twice the old capacity, else twice the old capacity).
GrowCap(old, needed) == IF needed > 2 * old THEN needed ELSE 2 * old

RECURSIVE CapAfterAppends(_)
\* Capacity of a slice built from nil by n appends of one element.
CapAfterAppends(n) ==
    IF n = 0 THEN 0
    ELSE LET c == CapAfterAppends(n - 1)
         IN  IF n > c THEN GrowCap(c, n) ELSE c

\* The job the pointer job refers to: the slot of the array backing execJobs
\* while job points into it, else the job of the array left behind.
CurJob(e) == IF e.jobLive THEN e.execJobs[e.jobIdx + 1] ELSE e.jobSnap

\* The insertion if the job were written over the entry at pos instead of
\* moving the entries from pos on by one.
InsertJobOverwrite(e, pos, j) ==
    [e EXCEPT !.execJobs = IF pos < Len(e.execJobs)
                           THEN [e.execJobs EXCEPT ![pos + 1] = j]
                           ELSE Append(e.execJobs, j)]

\* *execJobs = append((*execJobs)[:pos], append([]Job{j}, (*execJobs)[pos:]...)...)
\* In place when the capacity suffices (the slots from pos on are rewritten);
\* otherwise a new array is allocated and job keeps pointing into the old one.
InsertJob(e, pos, j) ==
    LET n     == Len(e.execJobs)
        grown == n + 1 > e.execCap
    IN  [e EXCEPT
           !.execJobs = SubSeq(e.execJobs, 1, pos) \o <<j>>
                        \o SubSeq(e.execJobs, pos + 1, n),
           !.execCap  = IF grown THEN GrowCap(e.execCap, n + 1) ELSE @,
           !.jobSnap  = IF grown /\ e.jobLive THEN e.execJobs[e.jobIdx + 1] ELSE @,
           !.jobLive  = IF grown THEN FALSE ELSE @]

\* resolveJobIndexExec if a target found nowhere resolved to the first job of
\* the working list.
ResolveJobIndexExecFallback(e, declared, target, insertAfter) ==
    LET inExec == {i \in 1..Len(e.execJobs) : e.execJobs[i].name = target}
        inAll  == {i \in 1..Len(declared) : declared[i].name = target}
    IN  IF inExec # {}
        THEN [e EXCEPT !.found = Min(inExec) - 1, !.ok = TRUE]
        ELSE IF inAll # {}
        THEN LET pos == Clamp(insertAfter + 1, Len(e.execJobs))
             IN  [InsertJob(e, pos, declared[Min(inAll)])
                    EXCEPT !.found = pos, !.ok = TRUE]
        ELSE [e EXCEPT !.found = 0, !.ok = TRUE]

\* resolveJobIndexExec: the result is left in the fields found and ok.
ResolveJobIndexExec(e, declared, target, insertAfter) ==
    LET inExec == {i \in 1..Len(e.execJobs) : e.execJobs[i].name = target}
        inAll  == {i \in 1..Len(declared) : declared[i].name = target}
    IN  IF inExec # {}
        THEN [e EXCEPT !.found = Min(inExec) - 1, !.ok = TRUE]
        ELSE IF inAll # {}
        THEN LET pos == Clamp(insertAfter + 1, Len(e.execJobs))
             IN  [InsertJob(e, pos, declared[Min(inAll)])
                    EXCEPT !.found = pos, !.ok = TRUE]
        ELSE [e EXCEPT !.found = -1, !.ok = FALSE]

\* The generated name of a resume job.
ResumeName(name, now) == name \o <<"-resume-", ToString(now)>>

\* insertResumeJob with the resume job placed at the index of the target job
\* (before it) instead of after it.
InsertResumeJobBeforeTarget(e, after, job, resumeFrom) ==
    IF resumeFrom + 1 >= Len(job.steps) THEN e
    ELSE LET newJob == [name  |-> ResumeName(job.name, e.clock),
                        steps |-> SubSeq(job.steps, resumeFrom + 2, Len(job.steps))]
         IN  InsertJob([e EXCEPT !.clock = @ + 1],
                       Clamp(after, Len(e.execJobs)), newJob)

\* insertResumeJob
InsertResumeJob(e, after, job, resumeFrom) ==
    IF resumeFrom + 1 >= Len(job.steps) THEN e
    ELSE LET newJob == [name  |-> ResumeName(job.name, e.clock),
                        steps |-> SubSeq(job.steps, resumeFrom + 2, Len(job.steps))]
         IN  InsertJob([e EXCEPT !.clock = @ + 1],
                       Clamp(after + 1, Len(e.execJobs)), newJob)

\* ------------------------------------------------------------ the log

\* appendToBuf if the front of the buffer were kept instead of its end.
AppendToBufHead(buf, b) ==
    IF Len(b) = 0 THEN buf
    ELSE LET n == buf \o b
         IN  IF Len(n) > logCap THEN SubSeq(n, 1, logCap) ELSE n

\* appendToBuf: the data is appended and the front is cut so that the last
\* logCap bytes are kept.
AppendToBuf(buf, b) ==
    IF Len(b) = 0 THEN buf
    ELSE LET n == buf \o b
         IN  IF Len(n) > logCap THEN SubSeq(n, Len(n) - logCap + 1, Len(n)) ELSE n

\* line := []byte(s + "\n")
Line(s) == s \o <<"\n">>

RECURSIVE AppendLines(_, _)
\* The buffer after writeLog of each of the lines.
AppendLines(buf, lines) ==
    IF lines = <<>> THEN buf
    ELSE AppendLines(AppendToBuf(buf, Head(lines)), Tail(lines))

RECURSIVE Flatten(_)
Flatten(lines) == IF lines = <<>> THEN <<>> ELSE Head(lines) \o Flatten(Tail(lines))

\* The lines written to the log.
JobHeader(name) == Line(<<"== Job: ">> \o name \o <<" ==">>)
CmdLine(text) == Line(<<"CMD: ">> \o text)
FailedLine == Line(<<"command failed: ">>)
DiagLine == Line(<<"diagnostic">>)
CompletedLine == Line(<<"completed">>)
EvidenceHeader == <<"=== ERROR EVIDENCE (last ~300KB) ===", "\n">>

\* dir: the log directory exists; file: run.log exists, with content; notice:
\* "logs preserved at ..." was printed; failed: "failed to create ..." was.
NoDisk ==
    [dir |-> FALSE, file |-> FALSE, content |-> <<>>, notice |-> FALSE,
     failed |-> FALSE]

\* What the file system lets the tool do: everything, no directory, or the
\* directory but no file in it.
DiskLuck == {"ok", "nomkdir", "nocreate"}

\* The deferred function if it wrote the log whatever the exit code.
PersistAlways(d, code, buf, luck) ==
    IF persistLogs THEN d
    ELSE [dir |-> TRUE, file |-> TRUE, content |-> EvidenceHeader \o buf,
          notice |-> TRUE, failed |-> FALSE]

\* The deferred function if it wrote the buffer without the header.
PersistBare(d, code, buf, luck) ==
    IF persistLogs \/ code = RcOk THEN d
    ELSE IF luck = "nomkdir" THEN [d EXCEPT !.failed = TRUE]
    ELSE IF luck = "nocreate" THEN [d EXCEPT !.dir = TRUE, !.failed = TRUE]
    ELSE [dir |-> TRUE, file |-> TRUE, content |-> buf,
          notice |-> TRUE, failed |-> FALSE]

\* The deferred function of RunWithArgs, run when it returns code with the
\* buffer buf: without --persist-logs and with a non-zero code the directory
\* and run.log are created, the header and the buffer written and the notice
\* printed.
Persist(d, code, buf, luck) ==
    IF persistLogs \/ code = RcOk THEN d
    ELSE IF luck = "nomkdir" THEN [d EXCEPT !.failed = TRUE]
    ELSE IF luck = "nocreate" THEN [d EXCEPT !.dir = TRUE, !.failed = TRUE]
    ELSE [dir |-> TRUE, file |-> TRUE, content |-> EvidenceHeader \o buf,
          notice |-> TRUE, failed |-> FALSE]

\* writeLog of the lines, in order, followed by the return of code if code is
\* not NoRet: the buffer, the streamed file (lf) and the deferred function.
Emit(lines, code) ==
    /\ logBuf' = AppendLines(logBuf, lines)
    /\ UNCHANGED appended
    /\ \E luck \in (IF code \notin {NoRet, RcOk} /\ ~persistLogs THEN DiskLuck ELSE {"ok"}) :
          disk' = LET streamed == IF persistLogs
                                  THEN [disk EXCEPT !.content = @ \o Flatten(lines)]
                                  ELSE disk
                  IN  IF code = NoRet THEN streamed
                      ELSE Persist(streamed, code, AppendLines(logBuf, lines), luck)

\* ------------------------------------------------------ branch decisions
\* The evaluation of a step works on a record e: the cursors, the working job
\* list, ret (the value of a return statement, NoRet if none was reached),
\* matched (conditionMatched), and the history fields applied (the rules whose
\* action switch was entered) and whenSeen (the when-rules whose operators
\* were tested).  c holds what the step gives the rules: out (outStr), code
\* (lastExitCode), err (errOccurred), env (vars), the step, stepIndex and the
\* declared jobs.

Return(e, code) == [e EXCEPT !.ret = code]

\* The goto_step case if the step cursor were put before the first step of
\* the job.
GotoStepRestart(e, c, name) ==
    IF name = "" THEN Return(e, RcTarget)
    ELSE IF name \notin DOMAIN c.stepIndex THEN Return(e, RcTarget)
    ELSE [e EXCEPT !.si = -1]

\* The goto_step case if the step cursor were put two steps before the target.
GotoStepTwoBefore(e, c, name) ==
    IF name = "" THEN Return(e, RcTarget)
    ELSE IF name \notin DOMAIN c.stepIndex THEN Return(e, RcTarget)
    ELSE [e EXCEPT !.si = c.stepIndex[name] - 2]

\* case "goto_step": the target is looked up in stepIndex.
GotoStep(e, c, name) ==
    IF name = "" THEN Return(e, RcTarget)
    ELSE IF name \notin DOMAIN c.stepIndex THEN Return(e, RcTarget)
    ELSE [e EXCEPT !.si = c.stepIndex[name] - 1]

StepNames(job) == [i \in 1..Len(job.steps) |-> job.steps[i].name]

\* The goto_job case if the job cursor were left where it is, so that the job
\* loop goes on with the next job.
GotoJobNextJob(e, c, target) ==
    IF target = <<>> THEN Return(e, RcTarget)
    ELSE LET r == ResolveJobIndexExec(e, c.allJobs, target, e.ji)
         IN  IF ~r.ok THEN Return(r, RcTarget)
             ELSE LET r2 == InsertResumeJob(r, r.found, CurJob(r), r.si)
                  IN  [r2 EXCEPT !.si = Len(CurJob(r2).steps)]

\* The goto_job case if the job cursor were put on the target itself, so that
\* the increment of the job loop passes it.
GotoJobPastTarget(e, c, target) ==
    IF target = <<>> THEN Return(e, RcTarget)
    ELSE LET r == ResolveJobIndexExec(e, c.allJobs, target, e.ji)
         IN  IF ~r.ok THEN Return(r, RcTarget)
             ELSE LET r2 == InsertResumeJob([r EXCEPT !.ji = r.found],
                                            r.found, CurJob(r), r.si)
                  IN  [r2 EXCEPT !.si = Len(CurJob(r2).steps)]

\* case "goto_job": resolve, move the job cursor, insert the resume job and
\* leave the step loop.
GotoJob(e, c, target) ==
    IF target = <<>> THEN Return(e, RcTarget)
    ELSE LET r == ResolveJobIndexExec(e, c.allJobs, target, e.ji)
         IN  IF ~r.ok THEN Return(r, RcTarget)
             ELSE LET r2 == InsertResumeJob([r EXCEPT !.ji = r.found - 1],
                                            r.found, CurJob(r), r.si)
                  IN  [r2 EXCEPT !.si = Len(CurJob(r2).steps)]

\* The action switch of a rule if an unknown keyword were taken for continue.
ApplyActionUnknownContinues(e, c, stage, idx, action, stepT, jobT) ==
    LET r == CASE action = "drop"      -> Return(e, RcOk)
               [] action = "goto_step" -> GotoStep(e, c, stepT)
               [] action = "goto_job"  -> GotoJob(e, c, jobT)
               [] action = "fail"      -> Return(e, RcFail)
               [] OTHER                -> e
    IN  [r EXCEPT !.applied =
           Append(@, [stage |-> stage, idx |-> idx, action |-> action,
                      step |-> stepT, job |-> jobT,
                      found |-> IF action = "goto_job" /\ r.ret = NoRet
                                THEN r.found ELSE -1,
                      tsteps |-> IF action = "goto_job" /\ r.ret = NoRet
                                 THEN StepNames(r.execJobs[r.found + 1]) ELSE <<>>,
                      sizeBefore |-> Len(e.execJobs),
                      sizeAfter |-> Len(r.execJobs)])]

\* The action switch of a rule.  The rule is noted in applied with the index
\* goto_job resolved to (-1 if none), the steps of the job found there, and
\* the length of the working list before and after.
ApplyAction(e, c, stage, idx, action, stepT, jobT) ==
    LET r == CASE action = "continue"  -> e
               [] action = "drop"      -> Return(e, RcOk)
               [] action = "goto_step" -> GotoStep(e, c, stepT)
               [] action = "goto_job"  -> GotoJob(e, c, jobT)
               [] action = "fail"      -> Return(e, RcFail)
               [] OTHER                -> Return(e, RcTarget)
    IN  [r EXCEPT !.applied =
           Append(@, [stage |-> stage, idx |-> idx, action |-> action,
                      step |-> stepT, job |-> jobT,
                      found |-> IF action = "goto_job" /\ r.ret = NoRet
                                THEN r.found ELSE -1,
                      tsteps |-> IF action = "goto_job" /\ r.ret = NoRet
                                 THEN StepNames(r.execJobs[r.found + 1]) ELSE <<>>,
                      sizeBefore |-> Len(e.execJobs),
                      sizeAfter |-> Len(r.execJobs)])]

RECURSIVE LegacyFrom(_, _, _)
\* The loop over step.Conditions, from the i-th on.
LegacyFrom(e, c, i) ==
    IF i > Len(c.step.conditions) \/ e.ret # NoRet THEN e
    ELSE LET cond == c.step.conditions[i]
             pat  == Interpolate(cond.pattern, c.env)
         IN  IF ~RegexValid(pat) THEN Return(e, RcTarget)
             ELSE IF RegexMatch(pat, c.out)
             THEN LegacyFrom(ApplyAction([e EXCEPT !.matched = TRUE], c,
                                         "legacy", i, cond.action, cond.step, cond.job),
                             c, i + 1)
             ELSE LegacyFrom(e, c, i + 1)

\* The operators of a when-rule if the first operator present decided alone.
WhenResultFirstPresent(w, c) ==
    IF w.contains # <<>>
    THEN (IF Contains(c.out, Interpolate(w.contains, c.env)) THEN "match" ELSE "nomatch")
    ELSE IF w.equals # <<>>
    THEN (IF TrimSpace(c.out) = TrimSpace(Interpolate(w.equals, c.env))
          THEN "match" ELSE "nomatch")
    ELSE IF w.regex # <<>>
    THEN (IF ~RegexValid(Interpolate(w.regex, c.env)) THEN "invalid"
          ELSE IF RegexMatch(Interpolate(w.regex, c.env), c.out) THEN "match"
          ELSE "nomatch")
    ELSE IF w.hasExit /\ c.code = w.exit_code
    THEN "match"
    ELSE "nomatch"

\* The operators of a when-rule: "match", "nomatch", or "invalid" when the
\* regex is reached and does not compile.
WhenResult(w, c) ==
    IF w.contains # <<>> /\ Contains(c.out, Interpolate(w.contains, c.env))
    THEN "match"
    ELSE IF w.equals # <<>>
            /\ TrimSpace(c.out) = TrimSpace(Interpolate(w.equals, c.env))
    THEN "match"
    ELSE IF w.regex # <<>> /\ ~RegexValid(Interpolate(w.regex, c.env))
    THEN "invalid"
    ELSE IF w.regex # <<>> /\ RegexMatch(Interpolate(w.regex, c.env), c.out)
    THEN "match"
    ELSE IF w.hasExit /\ c.code = w.exit_code
    THEN "match"
    ELSE "nomatch"

RECURSIVE WhenFromNoBreak(_, _, _)
\* The loop over step.When if a matching rule did not end it.
WhenFromNoBreak(e, c, i) ==
    IF i > Len(c.step.when) \/ e.ret # NoRet THEN e
    ELSE LET w  == c.step.when[i]
             r  == WhenResult(w, c)
             e1 == [e EXCEPT !.whenSeen = Append(@, i)]
         IN  CASE r = "invalid" -> Return(e1, RcTarget)
               [] r = "match"   ->
                    WhenFromNoBreak(ApplyAction([e1 EXCEPT !.matched = TRUE], c,
                                                "when", i, w.action, w.step, w.job),
                                    c, i + 1)
               [] OTHER         -> WhenFromNoBreak(e1, c, i + 1)

RECURSIVE WhenFrom(_, _, _)
\* The loop over step.When, from the i-th rule on; a matching rule ends it.
WhenFrom(e, c, i) ==
    IF i > Len(c.step.when) THEN e
    ELSE LET w  == c.step.when[i]
             r  == WhenResult(w, c)
             e1 == [e EXCEPT !.whenSeen = Append(@, i)]
         IN  CASE r = "invalid" -> Return(e1, RcTarget)
               [] r = "match"   -> ApplyAction([e1 EXCEPT !.matched = TRUE], c,
                                               "when", i, w.action, w.step, w.job)
               [] OTHER         -> WhenFrom(e1, c, i + 1)

\* The when-rules evaluated whether or not a legacy condition matched.
WhenStageUngated(e, c) ==
    IF e.ret = NoRet THEN WhenFrom(e, c, 1) ELSE e

\* if !conditionMatched { for _, w := range step.When ... }
WhenStage(e, c) ==
    IF e.ret = NoRet /\ ~e.matched THEN WhenFrom(e, c, 1) ELSE e

\* if !conditionMatched && step.ElseAction != "" { switch step.ElseAction ... }
ElseStage(e, c) ==
    IF e.ret = NoRet /\ ~e.matched /\ c.step.else_action # ""
    THEN ApplyAction(e, c, "else", 0, c.step.else_action,
                     c.step.else_step, c.step.else_job)
    ELSE e

\* conditionMatched = true, the statement that follows the else_action block
MarkHandled(e) ==
    IF e.ret = NoRet THEN [e EXCEPT !.matched = TRUE] ELSE e

\* What the interpreter takes for a timeout: errOccurred && lastExitCode == 124
TimedOutResult(code, err) == err /\ code = TimeoutCode

\* if errOccurred && lastExitCode == 124 && step.OnTimeout != "" && !conditionMatched
OnTimeoutStage(e, c) ==
    IF e.ret = NoRet /\ TimedOutResult(c.code, c.err)
       /\ c.step.on_timeout # "" /\ ~e.matched
    THEN LET r == ApplyAction(e, c, "on_timeout", 0, c.step.on_timeout,
                              c.step.on_timeout_step, c.step.on_timeout_job)
         IN  IF r.ret = NoRet THEN [r EXCEPT !.matched = TRUE] ELSE r
    ELSE e

\* if !conditionMatched && errOccurred { ... return 5 }
UnmatchedStage(e, c) ==
    IF e.ret = NoRet /\ ~e.matched /\ c.err THEN Return(e, RcUnmatched) ELSE e

\* The rules of a step if a failure that no rule handled ended the run with
\* the exit code of the command.
EvalStepExitCode(e, c) ==
    LET r == UnmatchedStage(
               OnTimeoutStage(
                 MarkHandled(ElseStage(WhenStage(LegacyFrom(e, c, 1), c), c)), c), c)
    IN  IF r.ret = NoRet /\ c.err /\ r.applied = <<>> THEN Return(r, c.code) ELSE r

\* The rules of a step, from "Evaluate conditions" to the end of the loop body.
EvalStep(e, c) ==
    UnmatchedStage(
      OnTimeoutStage(
        MarkHandled(ElseStage(WhenStage(LegacyFrom(e, c, 1), c), c)), c), c)

\* -------------------------------------------------------------- the run

\* cmds: step.Commands, or the single step.Command when there are none.
Cmds(step) ==
    IF Len(step.commands) = 0 /\ step.command.text # <<>>
    THEN <<step.command>>
    ELSE step.commands

\* What running the commands of a step one after the other can give.
ResultSeqs(cmds) ==
    LET all == UNION {cmds[i].outcomes : i \in 1..Len(cmds)}
    IN  {rs \in [1..Len(cmds) -> all] : \A i \in 1..Len(cmds) : rs[i] \in cmds[i].outcomes}

\* lastExitCode if it were the exit code of the first command that failed.
LastExitCodeFirstFailure(rs) ==
    LET bad == {i \in 1..Len(rs) : rs[i].code # 0}
    IN  IF bad = {} THEN 0 ELSE rs[Min(bad)].code

\* lastExitCode: assigned after every command, 0 before the first.
LastExitCode(rs) == IF Len(rs) = 0 THEN 0 ELSE rs[Len(rs)].code

RECURSIVE CombinedOut(_)
\* combinedOut: the outputs of the commands, concatenated
CombinedOut(rs) ==
    IF rs = <<>> THEN <<>> ELSE Head(rs).out \o CombinedOut(Tail(rs))

\* stepIndex if the steps of a resume job were looked up in the declared job
\* it was cut from.
StepIndexOfOriginal(job) ==
    LET n    == Len(job.name)
        orig == IF n >= 2 /\ job.name[n - 1] = "-resume-"
                THEN allJobs[Max({i \in 1..Len(allJobs) :
                                    allJobs[i].name = SubSeq(job.name, 1, n - 2)})]
                ELSE job
    IN  [m \in {orig.steps[i].name : i \in 1..Len(orig.steps)} |->
            Max({i \in 1..Len(orig.steps) : orig.steps[i].name = m}) - 1]

\* stepIndex: for i, s := range job.Steps { stepIndex[s.Name] = i }
StepIndexOf(job) ==
    [n \in {job.steps[i].name : i \in 1..Len(job.steps)} |->
        Max({i \in 1..Len(job.steps) : job.steps[i].name = n}) - 1]

\* save_output if the output were stored as it was captured.
SaveOutputRaw(step, out, env) ==
    IF step.save_output # ""
    THEN [k \in DOMAIN env \cup {step.save_output} |->
            IF k = step.save_output THEN out ELSE env[k]]
    ELSE env

\* save_output if the output were stored under every key of the environment.
SaveOutputEveryKey(step, out, env) ==
    IF step.save_output # ""
    THEN [k \in DOMAIN env \cup {step.save_output} |-> TrimSpace(out)]
    ELSE env

\* if step.SaveOutput != "" { vars[step.SaveOutput] = strings.TrimSpace(outStr) }
SaveOutput(step, out, env) ==
    IF step.save_output # ""
    THEN [k \in DOMAIN env \cup {step.save_output} |->
            IF k = step.save_output THEN TrimSpace(out) ELSE env[k]]
    ELSE env

RECURSIVE CmdLines(_, _, _)
\* What the command loop writes to the log: for each command "CMD: " and the
\* interpolated command line, and "command failed: ..." if it gave an error.
CmdLines(cmds, rs, env) ==
    IF cmds = <<>> THEN <<>>
    ELSE <<CmdLine(Interpolate(Head(cmds).text, env))>>
         \o (IF Head(rs).code # 0 THEN <<FailedLine>> ELSE <<>>)
         \o CmdLines(Tail(cmds), Tail(rs), env)

\* The lines a step writes if the message of a fail decision went to stderr
\* only.
StepLinesQuietFail(cmds, rs, ret) ==
    CmdLines(cmds, rs, vars) \o (IF ret \notin {NoRet, RcFail} THEN <<DiagLine>> ELSE <<>>)

\* The lines a step writes: those of its commands, and the message that
\* precedes every return statement of the rules.
StepLines(cmds, rs, ret) ==
    CmdLines(cmds, rs, vars) \o (IF ret # NoRet THEN <<DiagLine>> ELSE <<>>)

\* The evaluation record of the current state, before any rule.
Cur ==
    [si |-> si, ji |-> ji, execJobs |-> execJobs, execCap |-> execCap,
     jobLive |-> jobLive, jobIdx |-> jobIdx, jobSnap |-> jobSnap,
     clock |-> clock, ret |-> NoRet, matched |-> FALSE,
     applied |-> <<>>, whenSeen |-> <<>>, found |-> -1, ok |-> FALSE]

NoObs ==
    [ran |-> FALSE, job |-> <<>>, step |-> Step0, at |-> 0, from |-> 0,
     out |-> <<>>, code |-> 0, err |-> FALSE, applied |-> <<>>,
     whenSeen |-> <<>>, ret |-> NoRet, before |-> <<>>,
     jobv |-> [name |-> <<>>, steps |-> <<>>], logged |-> <<>>,
     results |-> <<>>]

\* jm[j.Name] = j for every declared job: the last job of a name wins.
JobNamed(declared, name) ==
    declared[Max({i \in 1..Len(declared) : declared[i].name = name})]

\* The job execution order if pipeline.runs were ignored.
ExecOrderDeclared(declared, names) == declared

\* execJobs: the jobs named by pipeline.runs, in that order, if it is not
\* empty, else the declared jobs.
ExecOrder(declared, names) ==
    IF Len(names) > 0
    THEN [i \in 1..Len(names) |-> JobNamed(declared, names[i])]
    ELSE declared

\* RunWithArgs up to the job execution order: the arguments, the YAML file,
\* the refusal of execution.mode live, the persist directory and its run.log,
\* the dry run.  The returns before the deferred function is set up leave no
\* log.
Startup ==
    /\ pc = "start"
    /\ UNCHANGED logBuf
    /\ CASE mode = "help"  -> pc' = "done" /\ rc' = RcOk /\ disk' = disk
         [] mode = "usage" -> pc' = "done" /\ rc' = RcUsage /\ disk' = disk
         [] mode = "live"  -> pc' = "done" /\ rc' = RcLive /\ disk' = disk
         [] OTHER ->
              \E luck \in (IF persistLogs THEN DiskLuck ELSE {"ok"}) :
                 IF luck = "nomkdir"
                 THEN /\ pc' = "done" /\ rc' = RcUsage
                      /\ disk' = [disk EXCEPT !.failed = TRUE]
                 ELSE IF luck = "nocreate"
                 THEN /\ pc' = "done" /\ rc' = RcUsage
                      /\ disk' = [disk EXCEPT !.dir = TRUE, !.failed = TRUE]
                 ELSE /\ disk' = IF persistLogs
                                 THEN [disk EXCEPT !.dir = TRUE, !.file = TRUE]
                                 ELSE disk
                      /\ IF mode = "dry"
                         THEN pc' = "done" /\ rc' = RcOk
                         ELSE pc' = "order" /\ rc' = rc
    /\ UNCHANGED <<allJobs, runs, mode, persistLogs, appended, sup, vars, execJobs,
                   execCap, ji, si, jobLive, jobIdx, jobSnap, stepIndex, clock,
                   trace, obs>>

\* "Determine job execution order": pipeline.runs if given, else the declared
\* order (execJobs then shares the array of p.Pipeline.Jobs, which the YAML
\* decoder allocates with capacity = length).
ResolveOrder ==
    /\ pc = "order"
    /\ LET names   == {allJobs[i].name : i \in 1..Len(allJobs)}
           unknown == \E i \in 1..Len(runs) : runs[i] \notin names
       IN  IF Len(runs) > 0 /\ unknown
           THEN /\ pc' = "done"
                /\ rc' = RcTarget
                /\ Emit(<<DiagLine>>, RcTarget)
                /\ UNCHANGED <<execJobs, execCap>>
           ELSE /\ pc' = "jobs"
                /\ rc' = rc
                /\ Emit(<<>>, NoRet)
                /\ execJobs' = ExecOrder(allJobs, runs)
                /\ execCap' = IF Len(runs) > 0
                              THEN CapAfterAppends(Len(runs))
                              ELSE Len(allJobs)
    /\ UNCHANGED <<allJobs, runs, mode, persistLogs, sup, vars, ji, si, jobLive,
                   jobIdx, jobSnap, stepIndex, clock, trace, obs>>

\* for ji := 0; ji < len(execJobs); ji++ { job := &execJobs[ji]; ... stepIndex }
EnterJob ==
    /\ pc = "jobs"
    /\ ji < Len(execJobs)
    /\ pc' = "steps"
    /\ si' = 0
    /\ jobLive' = TRUE
    /\ jobIdx' = ji
    /\ jobSnap' = execJobs[ji + 1]
    /\ stepIndex' = StepIndexOf(execJobs[ji + 1])
    /\ Emit(<<JobHeader(execJobs[ji + 1].name)>>, NoRet)
    /\ UNCHANGED <<allJobs, runs, mode, persistLogs, sup, vars, rc, execJobs, execCap, ji, clock, trace>>
    /\ obs' = [obs EXCEPT !.ran = FALSE]

\* The job loop ends: writeLog("completed"); return 0
Complete ==
    /\ pc = "jobs"
    /\ ji >= Len(execJobs)
    /\ pc' = "done"
    /\ rc' = RcOk
    /\ Emit(<<CompletedLine>>, RcOk)
    /\ UNCHANGED <<allJobs, runs, mode, persistLogs, sup, vars, execJobs, execCap, ji, si, jobLive,
                   jobIdx, jobSnap, stepIndex, clock, trace>>
    /\ obs' = [obs EXCEPT !.ran = FALSE]

\* The step loop ends (si < len(job.Steps) is false) and the job loop does ji++.
ExitJob ==
    /\ pc = "steps"
    /\ si >= Len(CurJob(Cur).steps)
    /\ pc' = "jobs"
    /\ ji' = ji + 1
    /\ UNCHANGED <<allJobs, runs, mode, persistLogs, logBuf, appended, disk, sup, vars, rc, execJobs, execCap, si, jobLive,
                   jobIdx, jobSnap, stepIndex, clock, trace>>
    /\ obs' = [obs EXCEPT !.ran = FALSE]

\* The checks before the commands if the step type were compared as written.
StepPrecheckCaseSensitive(step) ==
    IF step.type # "command" /\ step.type # "" THEN RcUnsupported
    ELSE IF step.timeout # "" /\ ~DurationValid(step.timeout) THEN RcTarget
    ELSE IF step.idle_timeout # "" /\ ~DurationValid(step.idle_timeout) THEN RcTarget
    ELSE NoRet

\* What stops a step before its commands: 4 for a step type other than
\* command, 6 for a timeout or idle_timeout that does not parse, else NoRet
\* (the run is started without the flag --idle-timeout).
StepPrecheck(step) ==
    IF ToLower(step.type) # "command" /\ step.type # "" THEN RcUnsupported
    ELSE IF step.timeout # "" /\ ~DurationValid(step.timeout) THEN RcTarget
    ELSE IF step.idle_timeout # "" /\ ~DurationValid(step.idle_timeout) THEN RcTarget
    ELSE NoRet

\* A step that is refused before any of its commands is run.
RefuseStep ==
    /\ pc = "steps"
    /\ si < Len(CurJob(Cur).steps)
    /\ StepPrecheck(CurJob(Cur).steps[si + 1]) # NoRet
    /\ pc' = "done"
    /\ rc' = StepPrecheck(CurJob(Cur).steps[si + 1])
    /\ Emit(<<DiagLine>>, StepPrecheck(CurJob(Cur).steps[si + 1]))
    /\ UNCHANGED <<allJobs, runs, mode, persistLogs, sup, vars, execJobs, execCap, ji, si, jobLive,
                   jobIdx, jobSnap, stepIndex, clock, trace>>
    /\ obs' = [obs EXCEPT !.ran = FALSE]

\* One iteration of the step loop: the commands are run, the output is saved,
\* the rules are evaluated and the decision is applied (si++ included).
RunStep ==
    /\ pc = "steps"
    /\ si < Len(CurJob(Cur).steps)
    /\ StepPrecheck(CurJob(Cur).steps[si + 1]) = NoRet
    /\ Len(trace) < MaxExec
    /\ LET job  == CurJob(Cur)
           step == job.steps[si + 1]
           cmds == Cmds(step)
       IN  \E rs \in ResultSeqs(cmds) :
             LET out  == CombinedOut(rs)
                 code == LastExitCode(rs)
                 err  == \E i \in 1..Len(rs) : rs[i].code # 0
                 env  == SaveOutput(step, out, vars)
                 c    == [out |-> out, code |-> code, err |-> err, env |-> env,
                          step |-> step, stepIndex |-> stepIndex, allJobs |-> allJobs]
             IN  \E e \in {EvalStep(Cur, c)} :
                 /\ vars' = env
                 /\ Emit(StepLines(cmds, rs, e.ret), e.ret)
                 /\ trace' = Append(trace,
                       [job |-> job.name, step |-> step.name,
                        cmds |-> [i \in 1..Len(cmds) |-> Interpolate(cmds[i].text, vars)],
                        at |-> si, from |-> ji,
                        list |-> [i \in 1..Len(execJobs) |-> execJobs[i].name],
                        rest |-> [i \in 1..(Len(job.steps) - si - 1) |->
                                    job.steps[si + 1 + i].name],
                        again |-> \E i \in (ji + 2)..Len(execJobs) :
                                     execJobs[i].name = job.name,
                        applied |-> e.applied, ret |-> e.ret])
                 /\ obs' = [ran |-> TRUE, job |-> job.name, step |-> step, at |-> si,
                            from |-> ji, out |-> out, code |-> code, err |-> err,
                            applied |-> e.applied, whenSeen |-> e.whenSeen,
                            ret |-> e.ret, before |-> execJobs, jobv |-> job,
                            logged |-> StepLines(cmds, rs, e.ret),
                            results |-> rs]
                 /\ execJobs' = e.execJobs
                 /\ execCap' = e.execCap
                 /\ jobLive' = e.jobLive
                 /\ jobIdx' = e.jobIdx
                 /\ jobSnap' = e.jobSnap
                 /\ clock' = e.clock
                 /\ ji' = e.ji
                 /\ si' = IF e.ret = NoRet THEN e.si + 1 ELSE e.si
                 /\ pc' = IF e.ret = NoRet THEN "steps" ELSE "done"
                 /\ rc' = e.ret
    /\ UNCHANGED <<allJobs, runs, mode, persistLogs, sup, stepIndex>>

Next == Startup \/ ResolveOrder \/ EnterJob \/ Complete \/ ExitJob \/ RefuseStep \/ RunStep

\* ------------------------------------------------------------ pipelines
\* The pipelines the run is explored on.  Declared jobs j1 = s1 s2 s3,
\* j2 = s4, j3 = s5; the step under test is s1, the other steps have no rule.

JobName(n) == <<n>>

\* What the command of the step under test can give.
Outputs == {<<>>, <<"a">>, <<"b">>, <<"a", " ">>, <<"a", "b">>}
ExitCodes == {0, 1, TimeoutCode}

CmdRich == [text |-> <<"a">>, outcomes |-> [out : Outputs, code : ExitCodes]]
CmdPlain ==
    [text |-> <<"b">>,
     outcomes |-> {[out |-> <<"b">>, code |-> 0], [out |-> <<>>, code |-> 1]}]

PlainStep(n) == [Step0 EXCEPT !.name = n, !.type = "command", !.command = CmdPlain]
RichStep(n) == [Step0 EXCEPT !.name = n, !.command = CmdRich]

Act(a, s, j) == [action |-> a, step |-> s, job |-> j]

\* Every action keyword with every kind of target: a step of the job, a step
\* of another job only, no step; a job of the working list, a declared job
\* outside it, an undeclared job, no job; and an unknown keyword.
ActsAll ==
    {Act("continue", "", <<>>), Act("drop", "", <<>>), Act("fail", "", <<>>),
     Act("goto_step", "s3", <<>>), Act("goto_step", "s4", <<>>),
     Act("goto_step", "", <<>>),
     Act("goto_job", "", JobName("j2")), Act("goto_job", "", JobName("j3")),
     Act("goto_job", "", JobName("jx")), Act("goto_job", "", <<>>),
     Act("bogus", "", <<>>)}

ActsSome ==
    {Act("continue", "", <<>>), Act("drop", "", <<>>), Act("fail", "", <<>>),
     Act("goto_step", "s3", <<>>),
     Act("goto_job", "", JobName("j2")), Act("goto_job", "", JobName("j3"))}

ActsFew ==
    {Act("continue", "", <<>>), Act("goto_step", "s3", <<>>), Act("drop", "", <<>>)}

CondOf(p, a) == [pattern |-> p, action |-> a.action, step |-> a.step, job |-> a.job]
WhenOf(w, a) == [w EXCEPT !.action = a.action, !.step = a.step, !.job = a.job]
WithElse(st, a) ==
    [st EXCEPT !.else_action = a.action, !.else_step = a.step, !.else_job = a.job]
WithOnTimeout(st, a) ==
    [st EXCEPT !.on_timeout = a.action, !.on_timeout_step = a.step,
               !.on_timeout_job = a.job]

SeqsUpTo(S, n) == UNION {[1..k -> S] : k \in 0..n}

\* One rule in one stage, with every action.
StepsOneStage ==
    {[RichStep("s1") EXCEPT !.conditions = <<CondOf(<<"a">>, a)>>] : a \in ActsAll}
    \cup {[RichStep("s1") EXCEPT !.when =
              <<WhenOf([When0 EXCEPT !.contains = <<"a">>], a)>>] : a \in ActsAll}
    \cup {WithElse(RichStep("s1"), a) : a \in ActsAll}
    \cup {WithOnTimeout(RichStep("s1"), a) : a \in ActsAll}

\* At most one rule in each of the four stages.
StepsMixed ==
    LET conds == {<<>>} \cup {<<CondOf(p, a)>> : p \in {<<"a">>, <<"b">>}, a \in ActsFew}
        whens == {<<>>} \cup {<<WhenOf([When0 EXCEPT !.contains = p], a)>> :
                                 p \in {<<"a">>, <<"b">>}, a \in ActsFew}
        none  == {Act("", "", <<>>)}
    IN  {WithOnTimeout(WithElse([RichStep("s1") EXCEPT !.conditions = cs, !.when = ws],
                                el), ot) :
            cs \in conds, ws \in whens,
            el \in none \cup ActsFew, ot \in none \cup ActsFew}

\* Lists of legacy conditions, and lists of when-rules.
StepsLegacy ==
    LET rules == {CondOf(p, a) : p \in {<<"a">>, <<"b">>}, a \in ActsSome}
                 \cup {CondOf(<<"(">>, Act("continue", "", <<>>))}
    IN  {[RichStep("s1") EXCEPT !.conditions = cs] : cs \in SeqsUpTo(rules, MaxRules)}

StepsWhen ==
    LET rules == {WhenOf([When0 EXCEPT !.contains = p], a) :
                     p \in {<<"a">>, <<"b">>}, a \in ActsSome}
                 \cup {WhenOf([When0 EXCEPT !.regex = <<"(">>], Act("continue", "", <<>>))}
    IN  {[RichStep("s1") EXCEPT !.when = ws] : ws \in SeqsUpTo(rules, MaxRules)}

\* One when-rule with every combination of operators.
StepsWhenOps ==
    {[RichStep("s1") EXCEPT !.when =
        <<[When0 EXCEPT !.contains = ct, !.equals = eq, !.regex = re,
                        !.hasExit = he, !.exit_code = ec,
                        !.action = "goto_step", !.step = "s3"]>>] :
        ct \in {<<>>, <<"b">>, <<"{{v}}">>}, eq \in {<<>>, <<"a">>},
        re \in {<<>>, <<"a", "b">>, <<"(">>},
        he \in BOOLEAN, ec \in {1}}

\* Steps that are refused, steps with several commands, a saved output.
StepsOther ==
    {[RichStep("s1") EXCEPT !.type = t] : t \in {"command", "COMMAND", "ssh"}}
    \cup {[RichStep("s1") EXCEPT !.timeout = t] : t \in {"2s", "bad"}}
    \cup {[RichStep("s1") EXCEPT !.idle_timeout = t] : t \in {"2s", "bad"}}
    \cup {[Step0 EXCEPT !.name = "s1"],
          [Step0 EXCEPT !.name = "s1", !.commands = <<CmdPlain, CmdPlain>>],
          [RichStep("s1") EXCEPT !.save_output = "v"]}

StepsUnderTest ==
    StepsOneStage \cup StepsMixed \cup StepsLegacy \cup StepsWhen
    \cup StepsWhenOps \cup StepsOther

DeclaredWith(s1) ==
    <<[name |-> JobName("j1"), steps |-> <<s1, PlainStep("s2"), PlainStep("s3")>>],
      [name |-> JobName("j2"), steps |-> <<PlainStep("s4")>>],
      [name |-> JobName("j3"), steps |-> <<PlainStep("s5")>>]>>

\* Pipelines for the rules of one step: the working list is j1 j2, and j3 is
\* declared only.
RulePipelines ==
    {[jobs |-> DeclaredWith(s1), runs |-> <<JobName("j1"), JobName("j2")>>,
      vars |-> [k \in {"v"} |-> <<"a">>]] : s1 \in StepsUnderTest}

\* Pipelines for the job cursor: one step of j1 (the first, the middle or the
\* last) jumps to a job, by a legacy condition that matches or not from one
\* run of the command to the next, or by its else_action; the step of j2 may
\* jump too; the execution order varies.
CmdMaybe ==
    [text |-> <<"a">>,
     outcomes |-> {[out |-> <<"a">>, code |-> 0], [out |-> <<>>, code |-> 0]}]
CmdOnce == [text |-> <<"b">>, outcomes |-> {[out |-> <<"b">>, code |-> 0]}]

QuietStep(n) == [Step0 EXCEPT !.name = n, !.command = CmdOnce]

JumpTargets == {JobName("j1"), JobName("j2"), JobName("j3")}

Jumpers(n) ==
    {[Step0 EXCEPT !.name = n, !.command = CmdMaybe,
                   !.conditions = <<CondOf(<<"a">>, Act("goto_job", "", t))>>] :
        t \in JumpTargets}
    \cup {WithElse(QuietStep(n), Act("goto_job", "", t)) : t \in JumpTargets}

\* Two legacy conditions that match together, the first a goto_job.
DoubleJumpers(n) ==
    {[Step0 EXCEPT !.name = n, !.command = CmdMaybe,
                   !.conditions = <<CondOf(<<"a">>, Act("goto_job", "", t)),
                                    CondOf(<<"a">>, a)>>] :
        t \in JumpTargets,
        a \in {Act("goto_job", "", u) : u \in JumpTargets}
               \cup {Act("goto_step", "s1", <<>>), Act("goto_step", "s3", <<>>),
                     Act("continue", "", <<>>)}}

FirstJobs ==
    {<<j, QuietStep("s2"), QuietStep("s3")>> : j \in Jumpers("s1") \cup DoubleJumpers("s1")}
    \cup {<<QuietStep("s1"), j, QuietStep("s3")>> : j \in Jumpers("s2")}
    \cup {<<QuietStep("s1"), QuietStep("s2"), j>> : j \in Jumpers("s3")}

SecondJobs ==
    {<<QuietStep("s4")>>}
    \cup {<<WithElse(QuietStep("s4"), Act("goto_job", "", t))>> :
             t \in {JobName("j1"), JobName("j3")}}

RunOrders ==
    {<<>>, <<JobName("j1"), JobName("j2")>>, <<JobName("j2"), JobName("j1")>>,
     <<JobName("j1")>>, <<JobName("j1"), JobName("jx")>>,
     <<JobName("j1"), JobName("j2"), JobName("j1")>>,
     <<JobName("j2"), JobName("j1"), JobName("j2")>>}

JobPipelines ==
    {[jobs |-> <<[name |-> JobName("j1"), steps |-> f],
                 [name |-> JobName("j2"), steps |-> g],
                 [name |-> JobName("j3"), steps |-> <<QuietStep("s5")>>]>>,
      runs |-> r, vars |-> [k \in {"v"} |-> <<"a">>]] :
        f \in FirstJobs, g \in SecondJobs, r \in RunOrders}

\* Pipelines of one job with one step.
TailPipelines ==
    {[jobs |-> <<[name |-> JobName("j1"), steps |-> <<s1>>]>>, runs |-> <<>>,
      vars |-> [k \in {"v"} |-> <<"a">>]] : s1 \in StepsOther}

\* Pipelines for save_output: s1 saves its output in v and a rule whose
\* pattern is {{v}} jumps to s3, whose command line holds {{v}}; v is b at
\* the start.
CmdEcho ==
    [text |-> <<"b", "{{v}}">>,
     outcomes |-> {[out |-> <<"b">>, code |-> 0], [out |-> <<>>, code |-> 1]}]

SaveSteps ==
    LET saving == [RichStep("s1") EXCEPT !.save_output = "v"]
        jump   == Act("goto_step", "s3", <<>>)
    IN  {[saving EXCEPT !.conditions = <<CondOf(<<"{{v}}">>, jump)>>],
         [saving EXCEPT !.when = <<WhenOf([When0 EXCEPT !.equals = <<"{{v}}">>], jump)>>],
         WithElse(saving, jump),
         WithElse([saving EXCEPT !.save_output = "w"], jump)}

SavePipelines ==
    {[jobs |-> <<[name |-> JobName("j1"),
                  steps |-> <<s1, PlainStep("s2"),
                              [Step0 EXCEPT !.name = "s3", !.command = CmdEcho]>>]>>,
      runs |-> <<>>, vars |-> [k \in {"v"} |-> <<"b">>]] : s1 \in SaveSteps}

\* Pipelines for the step type: the second step of j1 and the step of j2
\* have every kind of type.
TypedSteps(n) ==
    {[PlainStep(n) EXCEPT !.type = t] : t \in {"", "command", "COMMAND", "ssh"}}

TypePipelines ==
    {[jobs |-> <<[name |-> JobName("j1"), steps |-> <<PlainStep("s1"), s2>>],
                 [name |-> JobName("j2"), steps |-> <<s4>>]>>,
      runs |-> <<>>, vars |-> [k \in {"v"} |-> <<"a">>]] :
        s2 \in TypedSteps("s2"), s4 \in TypedSteps("s4")}

\* Pipelines for steps with several commands: s1 runs two commands, the
\* first prints a, the second prints b or nothing, each fails or not; its one
\* rule tests the exit code or the output and jumps to s3.
CmdFirst ==
    [text |-> <<"a">>,
     outcomes |-> {[out |-> <<"a">>, code |-> 0], [out |-> <<"a">>, code |-> 1]}]
CmdSecond ==
    [text |-> <<"b">>,
     outcomes |-> {[out |-> <<"b">>, code |-> 0], [out |-> <<"b">>, code |-> 1],
                   [out |-> <<>>, code |-> 0]}]

MultiSteps ==
    LET two  == [Step0 EXCEPT !.name = "s1", !.commands = <<CmdFirst, CmdSecond>>]
        jump == Act("goto_step", "s3", <<>>)
    IN  {[two EXCEPT !.when =
             <<WhenOf([When0 EXCEPT !.hasExit = TRUE, !.exit_code = ec], jump)>>] :
            ec \in {0, 1}}
        \cup {[two EXCEPT !.when = <<WhenOf([When0 EXCEPT !.contains = p], jump)>>] :
                 p \in {<<"a", "b">>, <<"b">>}}
        \cup {[two EXCEPT !.when = <<WhenOf([When0 EXCEPT !.equals = <<"a", "b">>], jump)>>],
              [two EXCEPT !.when = <<WhenOf([When0 EXCEPT !.regex = <<"a", "b">>], jump)>>],
              [two EXCEPT !.conditions = <<CondOf(<<"a", "b">>, jump)>>]}

MultiPipelines ==
    {[jobs |-> <<[name |-> JobName("j1"),
                  steps |-> <<s1, PlainStep("s2"), PlainStep("s3")>>]>>,
      runs |-> <<>>, vars |-> [k \in {"v"} |-> <<"a">>]] : s1 \in MultiSteps}

\* Pipelines of one silent step that fails, by a rule, by a malformed rule or
\* by a pattern that does not compile.
SilentSteps ==
    LET quiet == [RichStep("s1") EXCEPT !.silent = TRUE]
    IN  {WithElse(quiet, Act("fail", "", <<>>)),
         WithElse(quiet, Act("bogus", "", <<>>)),
         [quiet EXCEPT !.conditions = <<CondOf(<<"a">>, Act("fail", "", <<>>))>>],
         [quiet EXCEPT !.conditions = <<CondOf(<<"(">>, Act("continue", "", <<>>))>>],
         [quiet EXCEPT !.when =
             <<WhenOf([When0 EXCEPT !.contains = <<"a">>], Act("goto_job", "", <<"jx">>))>>],
         [quiet EXCEPT !.timeout = "bad"]}

SilentPipelines ==
    {[jobs |-> <<[name |-> JobName("j1"), steps |-> <<s1, PlainStep("s2")>>]>>,
      runs |-> <<>>, vars |-> [k \in {"v"} |-> <<"a">>]] : s1 \in SilentSteps}

\* Pipelines in which a job is jumped over and the target jumps back: s1 of
\* j1 may jump to j3, over j2, and the step of j3 jumps to j1 or to j2.
ReturnPipelines ==
    {[jobs |-> <<[name |-> JobName("j1"),
                  steps |-> <<[Step0 EXCEPT !.name = "s1", !.command = CmdMaybe,
                                 !.conditions = <<CondOf(<<"a">>,
                                                   Act("goto_job", "", JobName("j3")))>>],
                              QuietStep("s2")>>],
                 [name |-> JobName("j2"), steps |-> <<QuietStep("s4")>>],
                 [name |-> JobName("j3"),
                  steps |-> <<WithElse(QuietStep("s5"), Act("goto_job", "", t))>>]>>,
      runs |-> <<>>, vars |-> [k \in {"v"} |-> <<"a">>]] :
        t \in {JobName("j1"), JobName("j2")}}

\* Pipelines in which a step behind a jump to a job jumps to a step: s2 of j1
\* may jump to j2, and s3 jumps to s1, s2, s3 or s4 when its output holds a.
LoopBackPipelines ==
    {[jobs |-> <<[name |-> JobName("j1"),
                  steps |-> <<QuietStep("s1"),
                              [Step0 EXCEPT !.name = "s2", !.command = CmdMaybe,
                                 !.conditions = <<CondOf(<<"a">>,
                                                   Act("goto_job", "", JobName("j2")))>>],
                              [Step0 EXCEPT !.name = "s3", !.command = CmdMaybe,
                                 !.when = <<WhenOf([When0 EXCEPT !.contains = <<"a">>],
                                                   Act("goto_step", t, <<>>))>>],
                              QuietStep("s4")>>],
                 [name |-> JobName("j2"), steps |-> <<QuietStep("s5")>>]>>,
      runs |-> <<>>, vars |-> [k \in {"v"} |-> <<"a">>]] :
        t \in {"s1", "s2", "s3", "s4"}}

Pipelines ==
    RulePipelines \cup JobPipelines \cup TailPipelines \cup SavePipelines
    \cup TypePipelines \cup MultiPipelines \cup SilentPipelines
    \cup ReturnPipelines \cup LoopBackPipelines

\* The ways the tool is started; the ways other than a run are explored on
\* the pipelines whose first step has no rule.
Modes == {"run", "dry", "help", "usage", "live"}
StartPipelines ==
    {[jobs |-> DeclaredWith(s1), runs |-> <<JobName("j1"), JobName("j2")>>,
      vars |-> [k \in {"v"} |-> <<"a">>]] : s1 \in StepsOther}

\* The pipelines that are also run with --persist-logs.
PersistPipelines ==
    StartPipelines
    \cup {[jobs |-> DeclaredWith(s1), runs |-> <<JobName("j1"), JobName("j2")>>,
           vars |-> [k \in {"v"} |-> <<"a">>]] : s1 \in StepsOneStage}

\* No command is being supervised.
NoSup == [phase |-> "none"]

Init ==
    /\ \E p \in Pipelines, m \in Modes :
         /\ m # "run" => p \in StartPipelines
         /\ persistLogs \in (IF p \in PersistPipelines THEN BOOLEAN ELSE {FALSE})
         /\ allJobs = p.jobs
         /\ runs = p.runs
         /\ vars = p.vars
         /\ mode = m
    /\ logBuf = <<>>
    /\ appended = <<>>
    /\ disk = NoDisk
    /\ sup = NoSup
    /\ pc = "start"
    /\ rc = NoRet
    /\ execJobs = <<>>
    /\ execCap = 0
    /\ ji = 0
    /\ si = 0
    /\ jobLive = FALSE
    /\ jobIdx = 0
    /\ jobSnap = [name |-> <<>>, steps |-> <<>>]
    /\ stepIndex = [n \in {} |-> 0]
    /\ clock = 1
    /\ trace = <<>>
    /\ obs = NoObs

Spec == Init /\ [][Next]_vars_all


\* -------------------------------------------- the log buffer on its own
\* appendToBuf called with data of every length from 0 to logCap + 2.  The
\* bytes appended are numbered 1, 2, 3, ... in the order they are appended, so
\* that a byte of the buffer tells where it comes from.

\* The interpreter is not running.
Stopped ==
    /\ allJobs = <<>>
    /\ runs = <<>>
    /\ mode = "run"
    /\ persistLogs = FALSE
    /\ disk = NoDisk
    /\ vars = [k \in {"v"} |-> <<>>]
    /\ pc = "off"
    /\ rc = NoRet
    /\ execJobs = <<>>
    /\ execCap = 0
    /\ ji = 0
    /\ si = 0
    /\ jobLive = FALSE
    /\ jobIdx = 0
    /\ jobSnap = [name |-> <<>>, steps |-> <<>>]
    /\ stepIndex = [n \in {} |-> 0]
    /\ clock = 1
    /\ trace = <<>>
    /\ obs = NoObs

interp == <<allJobs, runs, mode, persistLogs, vars, pc, rc, execJobs, execCap,
            ji, si, jobLive, jobIdx, jobSnap, stepIndex, clock, trace, obs>>

AppendedBytes == Flatten(appended)

InitLog ==
    /\ Stopped
    /\ sup = NoSup
    /\ logBuf = <<>>
    /\ appended = <<>>

\* appendToBuf(b) with len(b) = n
AppendData ==
    /\ Len(appended) < MaxAppends
    /\ \E n \in 0..(logCap + 2) :
         LET b == [i \in 1..n |-> Len(AppendedBytes) + i]
         IN  /\ logBuf' = AppendToBuf(logBuf, b)
             /\ appended' = Append(appended, b)
    /\ UNCHANGED <<interp, disk, sup>>

NextLog == AppendData

SpecLog == InitLog /\ [][NextLog]_vars_all

\* ------------------------------------------- the command supervisor
\* runLocalCommandExec on its own: the shell process (with the children of
\* its process group), the idle timer, the deadline of the context, the
\* goroutine of exec.CommandContext that kills the shell process when the
\* context is done, and the supervisor's select.  Time is abstracted: a timer
\* that is configured may fire at any moment.
\*
\* sup.proc is none, running or ended; sup.cause says how it ended: natural
\* (by itself, with sup.status), shell (killed by the context, the shell
\* process only) or group (SIGKILL to the process group); sup.waitRes is what
\* cmd.Wait() puts in the channel done: nil, exit (an *exec.ExitError) or
\* other; sup.took is the case of the select that left the loop.

\* The exit status of a process that was killed by a signal.
Signaled == -1

ExitStatuses == {0, 1, TimeoutCode}

\* The process writes to its output at most MaxWrites times.
MaxWrites == 2

SupStart(idle, total) ==
    [phase |-> "spawn", idle |-> idle, total |-> total, proc |-> "none",
     cause |-> "none", status |-> 0, waitRes |-> "pending", idleC |-> FALSE,
     ctxErr |-> "none", activity |-> FALSE, timedOut |-> FALSE,
     waitErr |-> "unset", took |-> "none", alive |-> FALSE, groupKill |-> FALSE,
     spawned |-> FALSE, writes |-> 0, ret |-> NoRet, err |-> FALSE]

\* syscall.Kill(-pid, SIGKILL): every process of the group ends.
KillGroup(r) ==
    IF r.proc = "running"
    THEN [r EXCEPT !.proc = "ended", !.cause = "group", !.status = Signaled,
                   !.waitRes = "exit", !.groupKill = TRUE]
    ELSE [r EXCEPT !.groupKill = TRUE]

\* The kill of exec.CommandContext if the signal had no effect.
KillShellLost(r) == r

\* os.Process.Kill on the shell process: it ends, the other processes of its
\* group do not.
KillShell(r) ==
    [r EXCEPT !.proc = "ended", !.cause = "shell", !.status = Signaled,
              !.waitRes = "exit"]

\* cancel(): the context is canceled unless its deadline has passed already.
Cancel(r) == IF r.ctxErr = "none" THEN [r EXCEPT !.ctxErr = "canceled"] ELSE r

\* AFTER_WAIT: the code and the error returned.
AfterWaitResult(r) ==
    IF r.waitErr = "nil" THEN [code |-> 0, err |-> FALSE]
    ELSE IF r.timedOut \/ r.ctxErr = "deadline" THEN [code |-> TimeoutCode, err |-> TRUE]
    ELSE IF r.waitErr = "exit" THEN [code |-> r.status, err |-> TRUE]
    ELSE [code |-> 1, err |-> TRUE]

InitExec ==
    /\ Stopped
    /\ logBuf = <<>>
    /\ appended = <<>>
    /\ \E idle \in BOOLEAN, total \in BOOLEAN : sup = SupStart(idle, total)

\* The pipes and cmd.Start(): an error returns 1.
ExecSpawn ==
    /\ sup.phase = "spawn"
    /\ \/ sup' = [sup EXCEPT !.phase = "returned", !.ret = 1, !.err = TRUE]
       \/ sup' = [sup EXCEPT !.phase = "select", !.proc = "running", !.spawned = TRUE]
    /\ UNCHANGED <<interp, logBuf, appended, disk>>

\* The process writes to stdout or stderr: copyNotify signals activity.
ProcWrite ==
    /\ sup.proc = "running"
    /\ ~sup.activity
    /\ sup.writes < MaxWrites
    /\ sup' = [sup EXCEPT !.activity = TRUE, !.writes = @ + 1]
    /\ UNCHANGED <<interp, logBuf, appended, disk>>

\* The process ends by itself with status c; cmd.Wait() returns.
ProcExit ==
    /\ sup.proc = "running"
    /\ \E c \in ExitStatuses, w \in {"exit", "nil", "other"} :
         /\ (w = "exit") <=> (c # 0)
         /\ sup' = [sup EXCEPT !.proc = "ended", !.cause = "natural", !.status = c,
                               !.waitRes = IF c # 0 THEN "exit" ELSE w]
    /\ UNCHANGED <<interp, logBuf, appended, disk>>

\* The idle timer fires.
IdleElapse ==
    /\ sup.idle /\ sup.phase = "select" /\ ~sup.idleC
    /\ sup' = [sup EXCEPT !.idleC = TRUE]
    /\ UNCHANGED <<interp, logBuf, appended, disk>>

\* The deadline of context.WithTimeout passes.
DeadlineElapse ==
    /\ sup.total /\ sup.ctxErr = "none"
    /\ sup.phase \in {"select", "waiting", "after"}
    /\ sup' = [sup EXCEPT !.ctxErr = "deadline"]
    /\ UNCHANGED <<interp, logBuf, appended, disk>>

\* exec.CommandContext: when the context is done the shell process is killed
\* (os.Process.Kill: that process only, not its group).
CtxKill ==
    /\ sup.ctxErr # "none" /\ sup.proc = "running"
    /\ sup' = KillShell(sup)
    /\ UNCHANGED <<interp, logBuf, appended, disk>>

\* case <-activity: the idle timer is stopped, drained and reset.
SelActivity ==
    /\ sup.phase = "select" /\ sup.idle /\ sup.activity
    /\ sup' = [sup EXCEPT !.activity = FALSE, !.idleC = FALSE]
    /\ UNCHANGED <<interp, logBuf, appended, disk>>

\* case <-idleTimer.C: timedOut = true; cancel(); kill of the group; then the
\* supervisor waits for done.
SelIdle ==
    /\ sup.phase = "select" /\ sup.idle /\ sup.idleC
    /\ sup' = [KillGroup(Cancel(sup)) EXCEPT !.timedOut = TRUE, !.took = "idle",
                  !.alive = (sup.proc = "running"), !.phase = "waiting"]
    /\ UNCHANGED <<interp, logBuf, appended, disk>>

\* case <-cmdCtx.Done(): with an idle timeout the supervisor only waits for
\* done; without one it sets timedOut and kills the group first.
SelCtxDone ==
    /\ sup.phase = "select" /\ sup.ctxErr # "none"
    /\ sup' = IF sup.idle
              THEN [sup EXCEPT !.took = "ctx", !.alive = (sup.proc = "running"),
                               !.phase = "waiting"]
              ELSE [KillGroup(sup) EXCEPT !.timedOut = (sup.ctxErr = "deadline"),
                       !.took = "ctx", !.alive = (sup.proc = "running"),
                       !.phase = "waiting"]
    /\ UNCHANGED <<interp, logBuf, appended, disk>>

\* case err := <-done
SelDone ==
    /\ sup.phase = "select" /\ sup.proc = "ended"
    /\ sup' = [sup EXCEPT !.waitErr = sup.waitRes, !.took = "done", !.phase = "after"]
    /\ UNCHANGED <<interp, logBuf, appended, disk>>

\* waitErr = <-done, after a timer case
WaitDone ==
    /\ sup.phase = "waiting" /\ sup.proc = "ended"
    /\ sup' = [sup EXCEPT !.waitErr = sup.waitRes, !.phase = "after"]
    /\ UNCHANGED <<interp, logBuf, appended, disk>>

\* AFTER_WAIT and the return.
AfterWait ==
    /\ sup.phase = "after"
    /\ sup' = [sup EXCEPT !.phase = "returned", !.ret = AfterWaitResult(sup).code,
                          !.err = AfterWaitResult(sup).err]
    /\ UNCHANGED <<interp, logBuf, appended, disk>>

NextExec ==
    \/ ExecSpawn \/ ProcWrite \/ ProcExit \/ IdleElapse \/ DeadlineElapse \/ CtxKill
    \/ SelActivity \/ SelIdle \/ SelCtxDone \/ SelDone \/ WaitDone \/ AfterWait

SpecExec == InitExec /\ [][NextExec]_vars_all

\* The select of the supervisor takes one of its ready cases.
Select == SelActivity \/ SelIdle \/ SelCtxDone \/ SelDone

\* The supervisor with its scheduling: a goroutine that can run does run, a
\* timer that is armed fires, a signal that was sent is delivered.  Nothing
\* makes the process write or end by itself.
SpecExecLive ==
    /\ SpecExec
    /\ WF_vars_all(ExecSpawn)
    /\ WF_vars_all(IdleElapse)
    /\ WF_vars_all(DeadlineElapse)
    /\ WF_vars_all(CtxKill)
    /\ WF_vars_all(Select)
    /\ WF_vars_all(WaitDone)
    /\ WF_vars_all(AfterWait)

\* ------------------------------------------ the timeout within a step
\* The command loop of one step with a timeout, with time: the step has
\* NCommands commands, the i-th needs sup.durs[i] units of time to end by
\* itself; stepTimeout is parsed once and passed to every call of
\* runLocalCommandExec, which builds its context from context.Background() and
\* the timeout when it is called.  The first command starts at time 0.

StepTimeout == 2
MaxDuration == 3
NCommands == 3

InitStep ==
    /\ Stopped
    /\ logBuf = <<>>
    /\ appended = <<>>
    /\ \E d \in [1..NCommands -> 1..MaxDuration] :
         sup = [phase |-> "between", durs |-> d, k |-> 0, now |-> 0, started |-> 0,
                deadline |-> 0, codes |-> <<>>, ends |-> <<>>]

\* runLocalCommandExec(rc, stepTimeout, ...): context.WithTimeout(Background, timeout)
StepStartCommand ==
    /\ sup.phase = "between" /\ sup.k < NCommands
    /\ sup' = [sup EXCEPT !.phase = "running", !.started = sup.now,
                          !.deadline = sup.now + StepTimeout]
    /\ UNCHANGED <<interp, logBuf, appended, disk>>

\* Time passes while the command runs.
StepTick ==
    /\ sup.phase = "running"
    /\ sup.now < sup.deadline
    /\ sup.now < sup.started + sup.durs[sup.k + 1]
    /\ sup' = [sup EXCEPT !.now = @ + 1]
    /\ UNCHANGED <<interp, logBuf, appended, disk>>

\* The command ends by itself: exit code 0.
StepCommandExits ==
    /\ sup.phase = "running"
    /\ sup.now = sup.started + sup.durs[sup.k + 1]
    /\ sup' = [sup EXCEPT !.phase = "between", !.k = @ + 1,
                          !.codes = Append(@, 0), !.ends = Append(@, sup.now)]
    /\ UNCHANGED <<interp, logBuf, appended, disk>>

\* The deadline of the command's context passes: the command is killed, 124.
StepDeadline ==
    /\ sup.phase = "running"
    /\ sup.now = sup.deadline
    /\ sup' = [sup EXCEPT !.phase = "between", !.k = @ + 1,
                          !.codes = Append(@, TimeoutCode), !.ends = Append(@, sup.now)]
    /\ UNCHANGED <<interp, logBuf, appended, disk>>

\* The command loop is over: the rules of the step are evaluated.
StepCommandsDone ==
    /\ sup.phase = "between" /\ sup.k = NCommands
    /\ sup' = [sup EXCEPT !.phase = "rules"]
    /\ UNCHANGED <<interp, logBuf, appended, disk>>

NextStep ==
    \/ StepStartCommand \/ StepTick \/ StepCommandExits \/ StepDeadline
    \/ StepCommandsDone

SpecStep == InitStep /\ [][NextStep]_vars_all

\* ------------------------------------------------- the output readers
\* The two copyNotify goroutines of runLocalCommandExec, the process, and
\* cmd.Wait(): the process writes chunks to the stdout and the stderr pipe; a
\* reader reads a chunk from its pipe (r.Read) and writes it to the sink
\* (w.Write, which is not atomic: it begins and it ends); both readers have the
\* same sink, the bytes.Buffer outBuf of the interpreter.  cmd.Wait() returns
\* when the process has ended and closes the read ends of the pipes; the
\* supervisor then returns and the interpreter reads outBuf.
\*
\* sup.pipe[s] is the number of chunks in the pipe s; sup.reader[s] is read
\* (in or before r.Read), got (a chunk was read), writing (inside w.Write) or
\* stopped; sup.sink is the number of chunks in outBuf; a write that overlaps
\* a write of the other reader may be lost (a data race on the buffer).

Streams == {"stdout", "stderr"}
Other(st) == IF st = "stdout" THEN "stderr" ELSE "stdout"

\* The process writes at most MaxChunks chunks.
MaxChunks == 2

InitPipe ==
    /\ Stopped
    /\ logBuf = <<>>
    /\ appended = <<>>
    /\ sup = [proc |-> "running", written |-> 0,
              pipe |-> [st \in Streams |-> 0],
              reader |-> [st \in Streams |-> "read"],
              overlap |-> [st \in Streams |-> FALSE],
              sink |-> 0, closed |-> FALSE, returned |-> FALSE,
              used |-> FALSE, seen |-> 0]

\* The process writes a chunk to stdout or stderr.
PipeProcWrite ==
    /\ sup.proc = "running" /\ sup.written < MaxChunks
    /\ \E st \in Streams :
         sup' = [sup EXCEPT !.pipe[st] = @ + 1, !.written = @ + 1]
    /\ UNCHANGED <<interp, logBuf, appended, disk>>

\* The process ends.
PipeProcExit ==
    /\ sup.proc = "running"
    /\ sup' = [sup EXCEPT !.proc = "ended"]
    /\ UNCHANGED <<interp, logBuf, appended, disk>>

\* n, err := r.Read(buf) with n > 0
ReaderRead ==
    /\ \E st \in Streams :
         /\ sup.reader[st] = "read" /\ sup.pipe[st] > 0 /\ ~sup.closed
         /\ sup' = [sup EXCEPT !.pipe[st] = @ - 1, !.reader[st] = "got"]
    /\ UNCHANGED <<interp, logBuf, appended, disk>>

\* r.Read returns an error: end of file after the process has ended and the
\* pipe is empty, or the pipe was closed by cmd.Wait().
ReaderStop ==
    /\ \E st \in Streams :
         /\ sup.reader[st] = "read"
         /\ sup.closed \/ (sup.proc = "ended" /\ sup.pipe[st] = 0)
         /\ sup' = [sup EXCEPT !.reader[st] = "stopped"]
    /\ UNCHANGED <<interp, logBuf, appended, disk>>

\* w.Write(buf[:n]) begins.
ReaderWriteBegin ==
    /\ \E st \in Streams :
         /\ sup.reader[st] = "got"
         /\ sup' = [sup EXCEPT !.reader[st] = "writing",
                      !.overlap[st] = (sup.reader[Other(st)] = "writing"),
                      !.overlap[Other(st)] = @ \/ (sup.reader[Other(st)] = "writing")]
    /\ UNCHANGED <<interp, logBuf, appended, disk>>

\* w.Write ends: the chunk is in the sink, unless the write overlapped a write
\* of the other reader, in which case it may be lost.
ReaderWriteEnd ==
    /\ \E st \in Streams :
         /\ sup.reader[st] = "writing"
         /\ \E kept \in (IF sup.overlap[st] THEN BOOLEAN ELSE {TRUE}) :
              sup' = [sup EXCEPT !.reader[st] = "read", !.overlap[st] = FALSE,
                                 !.sink = IF kept THEN @ + 1 ELSE @]
    /\ UNCHANGED <<interp, logBuf, appended, disk>>

\* done <- cmd.Wait(): the process has ended; Wait closes the pipes.
PipeWait ==
    /\ sup.proc = "ended" /\ ~sup.closed
    /\ sup' = [sup EXCEPT !.closed = TRUE]
    /\ UNCHANGED <<interp, logBuf, appended, disk>>

\* The supervisor receives from done and returns.
PipeReturn ==
    /\ sup.closed /\ ~sup.returned
    /\ sup' = [sup EXCEPT !.returned = TRUE]
    /\ UNCHANGED <<interp, logBuf, appended, disk>>

\* combinedOut.Write(outBuf.Bytes()): the interpreter reads the sink.
InterpreterReads ==
    /\ sup.returned /\ ~sup.used
    /\ sup' = [sup EXCEPT !.used = TRUE, !.seen = sup.sink]
    /\ UNCHANGED <<interp, logBuf, appended, disk>>

NextPipe ==
    \/ PipeProcWrite \/ PipeProcExit \/ ReaderRead \/ ReaderStop
    \/ ReaderWriteBegin \/ ReaderWriteEnd \/ PipeWait \/ PipeReturn
    \/ InterpreterReads

SpecPipe == InitPipe /\ [][NextPipe]_vars_all

\* ------------------------------------------ the channels of the supervisor
\* The goroutines of runLocalCommandExec and the two channels between them:
\* activity (capacity 1), to which a copyNotify goroutine sends after it wrote
\* a chunk, with a select that has a default case; done (capacity 1), to
\* which the goroutine of cmd.Wait() sends its result once.  The supervisor
\* receives from activity only inside the select loop of the idle timer, and
\* from done once, in the loop or after it left the loop by a timer case.
\*
\* sup.task[s] is the position of the reader of stream s: read (in r.Read),
\* got (before w.Write), notify (before the select on activity) or stopped;
\* sup.waiter is wait (in cmd.Wait()), send (before done <- ...) or
\* finished; sup.super is select, waitdone (in waitErr = <-done) or returned;
\* sup.activity and sup.done are the numbers of elements in the channels;
\* sup.drops counts the notifications that took the default case and
\* sup.lateDrop says that one did so after the supervisor had left the loop.

\* activity := make(chan struct{}, 1)
ActivityCap == 1

\* done := make(chan error, 1)
DoneCap == 1

InitChan ==
    /\ Stopped
    /\ logBuf = <<>>
    /\ appended = <<>>
    /\ \E idle \in BOOLEAN :
         sup = [idle |-> idle, proc |-> "running", written |-> 0,
                pipe |-> [st \in Streams |-> 0],
                task |-> [st \in Streams |-> "read"],
                closed |-> FALSE, waiter |-> "wait", super |-> "select",
                activity |-> 0, done |-> 0, drops |-> 0, lateDrop |-> FALSE]

\* select { case activity <- struct{}{}: default: } with a send that would
\* wait for room in the channel instead of the default case.
NotifyActivityBlocking(s, st) ==
    IF s.activity < ActivityCap
    THEN [s EXCEPT !.activity = @ + 1, !.task[st] = "read"]
    ELSE s

\* select { case activity <- struct{}{}: default: }
NotifyActivity(s, st) ==
    IF s.activity < ActivityCap
    THEN [s EXCEPT !.activity = @ + 1, !.task[st] = "read"]
    ELSE [s EXCEPT !.task[st] = "read", !.drops = @ + 1,
                   !.lateDrop = @ \/ (s.super # "select")]

\* The process writes a chunk to stdout or stderr.
ChanProcWrite ==
    /\ sup.proc = "running" /\ sup.written < MaxChunks
    /\ \E st \in Streams :
         sup' = [sup EXCEPT !.pipe[st] = @ + 1, !.written = @ + 1]
    /\ UNCHANGED <<interp, logBuf, appended, disk>>

\* The process ends by itself.
ChanProcExit ==
    /\ sup.proc = "running"
    /\ sup' = [sup EXCEPT !.proc = "ended"]
    /\ UNCHANGED <<interp, logBuf, appended, disk>>

\* The process is killed: by the supervisor after the idle timer fired or the
\* context was done, or by exec.CommandContext when the context is done.
ChanKill ==
    /\ sup.proc = "running" /\ sup.super = "waitdone"
    /\ sup' = [sup EXCEPT !.proc = "ended"]
    /\ UNCHANGED <<interp, logBuf, appended, disk>>

\* n, err := r.Read(buf) with n > 0
ChanReaderRead(st) ==
    /\ sup.task[st] = "read" /\ sup.pipe[st] > 0 /\ ~sup.closed
    /\ sup' = [sup EXCEPT !.pipe[st] = @ - 1, !.task[st] = "got"]
    /\ UNCHANGED <<interp, logBuf, appended, disk>>

\* w.Write(buf[:n])
ChanReaderWrite(st) ==
    /\ sup.task[st] = "got"
    /\ sup' = [sup EXCEPT !.task[st] = "notify"]
    /\ UNCHANGED <<interp, logBuf, appended, disk>>

\* The reader notifies the supervisor of the activity.
ChanReaderNotify(st) ==
    /\ sup.task[st] = "notify"
    /\ sup' = NotifyActivity(sup, st)
    /\ UNCHANGED <<interp, logBuf, appended, disk>>

\* r.Read returns an error (end of file, or the pipe was closed by
\* cmd.Wait()): the reader returns.
ChanReaderStop(st) ==
    /\ sup.task[st] = "read"
    /\ sup.closed \/ (sup.proc = "ended" /\ sup.pipe[st] = 0)
    /\ sup' = [sup EXCEPT !.task[st] = "stopped"]
    /\ UNCHANGED <<interp, logBuf, appended, disk>>

\* One step of the copyNotify goroutine of a stream.
ChanReader(st) ==
    \/ ChanReaderRead(st) \/ ChanReaderWrite(st)
    \/ ChanReaderNotify(st) \/ ChanReaderStop(st)

\* cmd.Wait() returns: the process has ended, the pipes are closed.
ChanWaitReturns ==
    /\ sup.waiter = "wait" /\ sup.proc = "ended"
    /\ sup' = [sup EXCEPT !.waiter = "send", !.closed = TRUE]
    /\ UNCHANGED <<interp, logBuf, appended, disk>>

\* done <- cmd.Wait(): the send, that needs room in the channel.
ChanWaitSend ==
    /\ sup.waiter = "send" /\ sup.done < DoneCap
    /\ sup' = [sup EXCEPT !.done = @ + 1, !.waiter = "finished"]
    /\ UNCHANGED <<interp, logBuf, appended, disk>>

\* case <-activity, in the loop of the idle timer only.
ChanSelActivity ==
    /\ sup.super = "select" /\ sup.idle /\ sup.activity > 0
    /\ sup' = [sup EXCEPT !.activity = @ - 1]
    /\ UNCHANGED <<interp, logBuf, appended, disk>>

\* case <-idleTimer.C, case <-cmdCtx.Done(): the supervisor leaves the select
\* and waits for done.
ChanSelTimer ==
    /\ sup.super = "select"
    /\ sup' = [sup EXCEPT !.super = "waitdone"]
    /\ UNCHANGED <<interp, logBuf, appended, disk>>

\* case err := <-done, and waitErr = <-done after a timer case.
ChanRecvDone ==
    /\ sup.super \in {"select", "waitdone"} /\ sup.done > 0
    /\ sup' = [sup EXCEPT !.done = @ - 1, !.super = "returned"]
    /\ UNCHANGED <<interp, logBuf, appended, disk>>

NextChan ==
    \/ ChanProcWrite \/ ChanProcExit \/ ChanKill
    \/ (\E st \in Streams : ChanReader(st))
    \/ ChanWaitReturns \/ ChanWaitSend
    \/ ChanSelActivity \/ ChanSelTimer \/ ChanRecvDone

\* The goroutines with their scheduling: a goroutine that can take a step
\* takes it, and a kill that was sent is delivered.  Nothing makes the process
\* write or end by itself, or a timer fire.
SpecChan ==
    /\ InitChan /\ [][NextChan]_vars_all
    /\ \A st \in Streams : WF_vars_all(ChanReader(st))
    /\ WF_vars_all(ChanWaitReturns \/ ChanWaitSend)
    /\ WF_vars_all(ChanKill)
    /\ WF_vars_all(ChanRecvDone)

\* ------------------------------------------------ runs without jumps back
\* The run on the pipelines that have no goto_job rule and whose goto_step
\* rules name a later step of the job, with its scheduling: RunWithArgs is
\* sequential code, it goes on while it has a statement to execute (every
\* command ends).

\* The rules of a step, as action, step target and job target.
RulesOf(st) ==
    {Act(st.conditions[i].action, st.conditions[i].step, st.conditions[i].job) :
        i \in 1..Len(st.conditions)}
    \cup {Act(st.when[i].action, st.when[i].step, st.when[i].job) : i \in 1..Len(st.when)}
    \cup (IF st.else_action # ""
          THEN {Act(st.else_action, st.else_step, st.else_job)} ELSE {})
    \cup (IF st.on_timeout # ""
          THEN {Act(st.on_timeout, st.on_timeout_step, st.on_timeout_job)} ELSE {})

\* No rule of the pipeline is a goto_job, and every goto_step names a step of
\* its job that is behind the step of the rule.
ForwardOnly ==
    /\ mode = "run"
    /\ \A j \in 1..Len(allJobs) : \A i \in 1..Len(allJobs[j].steps) :
         \A r \in RulesOf(allJobs[j].steps[i]) :
            /\ r.action # "goto_job"
            /\ r.action = "goto_step" =>
                 /\ r.step \in DOMAIN StepIndexOf(allJobs[j])
                 /\ StepIndexOf(allJobs[j])[r.step] > i - 1

\* The pipelines these runs are explored on: one rule in one stage, one or
\* two legacy conditions, steps without rules, steps that are refused.
ForwardPipelines ==
    {p \in RulePipelines :
        /\ p.jobs[1].steps[1] \in StepsOneStage \cup StepsLegacy \cup StepsOther
        /\ Len(p.jobs[1].steps[1].conditions) <= 2}
    \cup TypePipelines

InitForward ==
    /\ Init
    /\ ForwardOnly
    /\ \E p \in ForwardPipelines : allJobs = p.jobs /\ runs = p.runs

SpecForward == InitForward /\ [][Next]_vars_all /\ WF_vars_all(Next)

\* ---------------------------------------------------------- the claims
\* What the specification says of the step that was just executed (the
\* claims on one step are stated on the state its execution leads to), read off
\* the step's declaration and the result of its commands (obs), without the
\* interpreter: which rules match and which decision is prescribed.

Executed == obs.ran

IsPrefix(s, t) == Len(s) <= Len(t) /\ SubSeq(t, 1, Len(s)) = s
Range(s) == {s[i] : i \in 1..Len(s)}

\* The command(s) of the executed step ended in a timeout.
ObsTimedOut == obs.err /\ obs.code = TimeoutCode

\* The i-th legacy condition compiles / matches the captured output.
LegacyCompiles(i) == RegexValid(Interpolate(obs.step.conditions[i].pattern, vars))
LegacyMatches(i) ==
    /\ LegacyCompiles(i)
    /\ RegexMatch(Interpolate(obs.step.conditions[i].pattern, vars), obs.out)
LegacyMatching == {i \in 1..Len(obs.step.conditions) : LegacyMatches(i)}
LegacyBroken == {i \in 1..Len(obs.step.conditions) : ~LegacyCompiles(i)}

\* The operators of a when-rule, each "present and succeeds".
OpContains(w) == w.contains # <<>> /\ Contains(obs.out, Interpolate(w.contains, vars))
OpEquals(w) ==
    w.equals # <<>> /\ TrimSpace(obs.out) = TrimSpace(Interpolate(w.equals, vars))
OpRegex(w) ==
    /\ w.regex # <<>>
    /\ RegexValid(Interpolate(w.regex, vars))
    /\ RegexMatch(Interpolate(w.regex, vars), obs.out)
OpExit(w) == w.hasExit /\ obs.code = w.exit_code
AnyOperatorSucceeds(w) == OpContains(w) \/ OpEquals(w) \/ OpRegex(w) \/ OpExit(w)

\* The regex of the rule is reached (contains and equals did not succeed) and
\* does not compile.
RegexBreaks(w) ==
    /\ ~OpContains(w) /\ ~OpEquals(w)
    /\ w.regex # <<>> /\ ~RegexValid(Interpolate(w.regex, vars))

WhenMatching == {i \in 1..Len(obs.step.when) : AnyOperatorSucceeds(obs.step.when[i])}
WhenBroken == {i \in 1..Len(obs.step.when) : RegexBreaks(obs.step.when[i])}

\* Every pattern the step's rules hold compiles.
PatternsCompile ==
    /\ LegacyBroken = {}
    /\ \A i \in 1..Len(obs.step.when) :
          obs.step.when[i].regex = <<>>
          \/ RegexValid(Interpolate(obs.step.when[i].regex, vars))

\* The rules of a stage that entered their action switch, as a list of indices.
AppliedOf(stage) ==
    SelectSeq(obs.applied, LAMBDA a : a.stage = stage)

\* The decision the specification prescribes for the executed step.
NoDecision == [stage |-> "none", action |-> "", step |-> "", job |-> <<>>]
Prescribed ==
    IF LegacyMatching # {}
    THEN LET r == obs.step.conditions[Min(LegacyMatching)]
         IN  [stage |-> "legacy", action |-> r.action, step |-> r.step, job |-> r.job]
    ELSE IF WhenMatching # {}
    THEN LET r == obs.step.when[Min(WhenMatching)]
         IN  [stage |-> "when", action |-> r.action, step |-> r.step, job |-> r.job]
    ELSE IF obs.step.else_action # ""
    THEN [stage |-> "else", action |-> obs.step.else_action,
          step |-> obs.step.else_step, job |-> obs.step.else_job]
    ELSE IF ObsTimedOut /\ obs.step.on_timeout # ""
    THEN [stage |-> "on_timeout", action |-> obs.step.on_timeout,
          step |-> obs.step.on_timeout_step, job |-> obs.step.on_timeout_job]
    ELSE NoDecision

Aborted(code) == pc = "done" /\ rc = code

\* The step loop of the current job ends without another step: the job at
\* ji + 1 is entered next.
LeavesJob == pc = "steps" /\ si >= Len(CurJob(Cur).steps)

\* The last n elements of a sequence (all of it if it is shorter).
LastOf(s, n) == IF Len(s) <= n THEN s ELSE SubSeq(s, Len(s) - n + 1, Len(s))

\* C11: after any sequence of appends the log buffer holds at most logCap
\* bytes and is the last min(total, logCap) bytes of everything appended; an
\* append of more than logCap bytes leaves the last logCap bytes of that
\* append.
C11_BufferKeepsTail ==
    /\ Len(logBuf) <= logCap
    /\ logBuf = LastOf(AppendedBytes, logCap)
    /\ Len(logBuf) = Min({Len(AppendedBytes), logCap})
    /\ (appended # <<>> /\ Len(appended[Len(appended)]) > logCap)
         => logBuf = LastOf(appended[Len(appended)], logCap)

\* A buffer that was filled in several appends, the last of them larger than
\* the capacity.
C11_Witness ==
    /\ Len(appended) >= 3
    /\ Len(appended[1]) > 0 /\ Len(appended[2]) > 0
    /\ Len(appended[1]) + Len(appended[2]) > logCap
    /\ Len(appended[Len(appended)]) > logCap
    /\ Len(logBuf) = logCap

\* C1: a step whose command failed, with no matching legacy condition or
\* when-rule, no else_action and no on_timeout, stops the run with exit code 5.
C1_UnmatchedFailureAborts ==
    (/\ Executed /\ PatternsCompile
     /\ obs.err
     /\ LegacyMatching = {} /\ WhenMatching = {}
     /\ obs.step.else_action = "" /\ obs.step.on_timeout = "")
    => Aborted(RcUnmatched)

\* C2: a step killed by its timeout, with no matching legacy condition or
\* when-rule and no else_action, has its on_timeout action applied: goto_step
\* moves the step cursor to the target, goto_job moves the job cursor to the
\* target job.
C2_OnTimeoutApplied ==
    (/\ Executed /\ PatternsCompile
     /\ Prescribed.stage = "on_timeout")
    => /\ (Prescribed.action = "goto_step" /\ Prescribed.step \in DOMAIN stepIndex)
            => (pc = "steps" /\ si = stepIndex[Prescribed.step])
       /\ (Prescribed.action = "goto_job"
             /\ \E i \in 1..Len(obs.before) : obs.before[i].name = Prescribed.job)
            => (LeavesJob /\ ji + 1 < Len(execJobs)
                /\ execJobs[ji + 2].name = Prescribed.job)

\* ---- goto_job: the resume job and the inserted job


\* The goto_step and goto_job rules the k-th executed step applied.
JumpsOf(k) ==
    SelectSeq(trace[k].applied, LAMBDA a : a.action \in {"goto_step", "goto_job"})
\* The goto_job rules of the k-th executed step that resolved their target.
JobJumpsOf(k) ==
    SelectSeq(trace[k].applied, LAMBDA a : a.action = "goto_job" /\ a.found >= 0)

\* The names of the steps executed after the k-th executed step.
StepsAfter(k) == [i \in 1..(Len(trace) - k) |-> trace[k + i].step]
\* How often the step named n was executed after the k-th executed step.
TimesAfter(k, n) == Cardinality({i \in (k + 1)..Len(trace) : trace[i].step = n})

\* The job loop ran to its end.
Completed == pc = "done" /\ rc = RcOk /\ ji >= Len(execJobs)

\* The k-th executed step jumped to a job from the middle of its job.
MidJobJump(k) ==
    /\ trace[k].ret = NoRet
    /\ trace[k].rest # <<>>
    /\ Len(JobJumpsOf(k)) >= 1

OnlyForwardJump(k) ==
    /\ MidJobJump(k)
    /\ Len(JumpsOf(k)) = 1
    /\ \A q \in 1..Len(trace) : q # k => JumpsOf(q) = <<>>
    /\ JobJumpsOf(k)[1].found > trace[k].from
    /\ ~trace[k].again

Without(list, drop) ==
    LET keep == {i \in 1..Len(list) : i \notin drop}
        nth(k) == CHOOSE i \in keep : Cardinality({j \in keep : j <= i}) = k
    IN  [k \in 1..Cardinality(keep) |-> list[nth(k)]]

NamedIn(list, name) == {i \in 1..Len(list) : list[i].name = name}

\* The steps that follow the executed step in its job.
ObsRest == Len(obs.jobv.steps) - obs.at - 1

\* C4: a goto_job decision whose target is declared but not in the working
\* list inserts exactly one copy of the declared job directly after the
\* current job, the other entries keep their order, and the inserted job is
\* the next job executed; a target that is in the working list is resolved to
\* its first entry and no job of that name is inserted.
C4_InsertOnceAfterCurrent ==
    (/\ Executed /\ PatternsCompile
     /\ Prescribed.action = "goto_job" /\ Prescribed.stage # "on_timeout"
     /\ Prescribed.job # <<>>
     /\ NamedIn(allJobs, Prescribed.job) # {})
    => LET tgt     == Prescribed.job
           resumes == IF ObsRest > 0 THEN 1 ELSE 0
       IN  IF NamedIn(obs.before, tgt) = {}
           THEN /\ Len(execJobs) = Len(obs.before) + 1 + resumes
                /\ Cardinality(NamedIn(execJobs, tgt)) = 1
                /\ execJobs[obs.from + 2] = allJobs[Min(NamedIn(allJobs, tgt))]
                /\ Without(execJobs, {obs.from + 2} \cup
                             (IF resumes = 1 THEN {obs.from + 3} ELSE {})) = obs.before
                /\ ji = obs.from
                /\ LeavesJob
           ELSE /\ Cardinality(NamedIn(execJobs, tgt)) = Cardinality(NamedIn(obs.before, tgt))
                /\ Len(execJobs) = Len(obs.before) + resumes
                /\ ji + 2 = Min(NamedIn(obs.before, tgt))
                /\ LeavesJob

\* The names of the steps of the job the executed step belongs to.
ObsStepNames == {obs.jobv.steps[i].name : i \in 1..Len(obs.jobv.steps)}

\* C5: a goto_step decision (legacy, when, else_action or on_timeout) whose
\* target is not a step of the job being executed aborts the run with exit
\* code 6, also when another job has a step of that name.
C5_MissingStepTargetAborts ==
    (/\ Executed
     /\ Prescribed.action = "goto_step"
     /\ Prescribed.step # ""
     /\ Prescribed.step \notin ObsStepNames)
    => Aborted(RcTarget)

StageRank(stage) ==
    CASE stage = "legacy" -> 1 [] stage = "when" -> 2
      [] stage = "else" -> 3 [] OTHER -> 4

\* C6: the stages run in the order legacy, when, else, on_timeout; when-rules
\* are evaluated only if no legacy condition matched, else_action is applied
\* only if no legacy condition and no when-rule matched, on_timeout only if no
\* earlier stage produced a decision, and a match in a stage keeps every later
\* stage from being evaluated or applied.
C6_StageOrder ==
    Executed =>
      /\ (obs.whenSeen # <<>> => LegacyMatching = {})
      /\ (AppliedOf("else") # <<>> => LegacyMatching = {} /\ WhenMatching = {})
      /\ (AppliedOf("on_timeout") # <<>> =>
            /\ LegacyMatching = {} /\ WhenMatching = {}
            /\ obs.step.else_action = "")
      /\ \A i, j \in 1..Len(obs.applied) :
            i < j => StageRank(obs.applied[i].stage) <= StageRank(obs.applied[j].stage)
      /\ (AppliedOf("legacy") # <<>> =>
            /\ obs.whenSeen = <<>>
            /\ \A i \in 1..Len(obs.applied) : obs.applied[i].stage = "legacy")
      /\ (AppliedOf("when") # <<>> =>
            \A i \in 1..Len(obs.applied) : obs.applied[i].stage = "when")

\* A step in which a legacy condition, a when-rule, the else_action and the
\* on_timeout shortcut could all act, and the run goes on.
C6_Witness ==
    /\ Executed /\ obs.ret = NoRet
    /\ LegacyMatching # {} /\ WhenMatching # {}
    /\ obs.step.else_action # "" /\ obs.step.on_timeout # "" /\ ObsTimedOut
    /\ AppliedOf("legacy") # <<>>

\* C7: of the legacy conditions of a step only the first that matches is
\* applied; the actions of later matching conditions have no effect.
C7_FirstLegacyOnly ==
    Executed => Len(AppliedOf("legacy")) <= 1

\* C8: the first when-rule in declaration order that matches determines the
\* action, and no later when-rule is evaluated or applied (a rule whose regex
\* is reached and does not compile ends the evaluation before it).
C8_FirstWhenOnly ==
    (/\ Executed
     /\ LegacyMatching = {} /\ LegacyBroken = {}
     /\ WhenMatching # {}
     /\ \A b \in WhenBroken : Min(WhenMatching) < b)
    => /\ Len(AppliedOf("when")) = 1
       /\ AppliedOf("when")[1].idx = Min(WhenMatching)
       /\ AppliedOf("when")[1].action = obs.step.when[Min(WhenMatching)].action
       /\ obs.whenSeen = [k \in 1..Min(WhenMatching) |-> k]

\* Two when-rules with different actions match, the first is applied.
C8_Witness ==
    /\ Executed
    /\ Cardinality(WhenMatching) >= 2
    /\ \E i, j \in WhenMatching :
          i < j /\ obs.step.when[i].action # obs.step.when[j].action
    /\ Len(AppliedOf("when")) = 1

\* The when-rules that were applied.
WhenApplied == {obs.applied[i].idx : i \in {k \in 1..Len(obs.applied) :
                                              obs.applied[k].stage = "when"}}
WhenEvaluated == {obs.whenSeen[i] : i \in 1..Len(obs.whenSeen)}

\* C9 as stated: an evaluated when-rule matches exactly when at least one of
\* its present operators succeeds (contains, equals, regex, exit_code), and an
\* operator that fails does not keep a later operator from matching.
C9_MatchIffAnyOperator ==
    Executed =>
      \A i \in WhenEvaluated :
         (i \in WhenApplied) <=> AnyOperatorSucceeds(obs.step.when[i])

\* C9 amended: as stated, except that a regex that is reached (contains and
\* equals absent or failed) and does not compile aborts the run with exit
\* code 6 before exit_code is tested.
C9_MatchIffAnyOperatorOrAbort ==
    Executed =>
      \A i \in WhenEvaluated :
         IF RegexBreaks(obs.step.when[i])
         THEN i \notin WhenApplied /\ Aborted(RcTarget)
         ELSE (i \in WhenApplied) <=> AnyOperatorSucceeds(obs.step.when[i])

\* A rule whose contains and regex are present and fail and whose exit_code
\* matches: the rule is applied.
C9_Witness ==
    /\ Executed
    /\ \E i \in WhenApplied :
         LET w == obs.step.when[i]
         IN  /\ w.contains # <<>> /\ ~OpContains(w)
             /\ w.regex # <<>> /\ ~OpRegex(w)
             /\ ~OpEquals(w) /\ OpExit(w)

\* C10: a drop decision of any stage ends the run with exit code 0 and a fail
\* decision with exit code 7, whatever the exit code of the command.
C10_DropAndFailEndRun ==
    (Executed /\ PatternsCompile) =>
      /\ (Prescribed.action = "drop" => Aborted(RcOk))
      /\ (Prescribed.action = "fail" => Aborted(RcFail))

\* ---- the log, the log file and the exit code

\* The lines the executed step logged other than its command lines.
ObsOtherLines == SelectSeq(obs.logged, LAMBDA l : Head(l) # "CMD: ")

\* C12: the log buffer receives the interpolated command line of every
\* command of the executed step and the output captured from it: after a step
\* whose commands produced output, a logged line other than the command lines
\* holds (the beginning of) that output.
C12_OutputLogged ==
    Executed =>
      /\ \A i \in 1..Len(Cmds(obs.step)) :
            \E k \in 1..Len(obs.logged) :
               obs.logged[k] = CmdLine(trace[Len(trace)].cmds[i])
      /\ obs.out # <<>> =>
            \E k \in 1..Len(ObsOtherLines) : Contains(ObsOtherLines[k], <<obs.out[1]>>)

\* The run got past the arguments, the YAML file and the persist directory,
\* and ended with the failure code of a step or of the execution order.
FailedRun == pc = "done" /\ rc \in {RcUnsupported, RcUnmatched, RcTarget, RcFail}

\* run.log holds the header and the buffered log, and the notice was printed.
EvidenceWritten ==
    /\ disk.dir /\ disk.file /\ disk.notice
    /\ disk.content = EvidenceHeader \o logBuf

\* C13 as stated: whenever the run ends with a non-zero exit code, run.log with
\* the "ERROR EVIDENCE" header and the buffered log is written and the notice
\* is printed, with and without a persistence directory.
C13_EvidenceOnFailure ==
    (pc = "done" /\ rc # RcOk) => EvidenceWritten

\* C13 amended: when the run ends with 4, 5, 6 or 7 and no persistence
\* directory was requested, run.log with the header and the buffered log is
\* written and the notice printed, unless the directory or the file cannot be
\* created (then a failure message is printed and there is no notice); when a
\* persistence directory was requested, run.log holds the lines streamed to it
\* as they were logged, without the header, and no notice is printed; a run
\* that ends with 2 or 3 writes no log and prints no notice.
C13_EvidenceUnlessPersisting ==
    /\ (FailedRun /\ ~persistLogs) =>
          \/ EvidenceWritten /\ ~disk.failed
          \/ disk.failed /\ ~disk.file /\ ~disk.notice
    /\ (FailedRun /\ persistLogs) =>
          /\ disk.dir /\ disk.file /\ ~disk.notice
          /\ ~IsPrefix(EvidenceHeader, disk.content)
          /\ LastOf(disk.content, logCap) = logBuf
    /\ (pc = "done" /\ rc \in {RcUsage, RcLive}) => (~disk.file /\ ~disk.notice)

\* A failed run without persistence directory whose buffer overflowed and was
\* written behind the header.
C13_Witness ==
    /\ FailedRun /\ ~persistLogs
    /\ EvidenceWritten
    /\ Len(logBuf) = logCap
    /\ Len(trace) >= 1

NoJumps == \A k \in 1..Len(trace) : JumpsOf(k) = <<>>

\* The declared job of a name.
Declared(name) == CHOOSE j \in Range(allJobs) : j.name = name

\* The jobs the specification lets run when no rule jumps: those listed in
\* pipeline.runs, as often and in the order they are listed, or every
\* declared job in declaration order when nothing is listed.
ListedJobs ==
    IF runs # <<>> THEN [i \in 1..Len(runs) |-> Declared(runs[i])] ELSE allJobs

RECURSIVE StepsInOrder(_)
\* The (job, step) pairs of a list of jobs, job after job, step after step.
StepsInOrder(jobs) ==
    IF jobs = <<>> THEN <<>>
    ELSE [i \in 1..Len(Head(jobs).steps) |-> <<Head(jobs).name, Head(jobs).steps[i].name>>]
         \o StepsInOrder(Tail(jobs))

\* The (job, step) pairs executed so far.
Executions == [k \in 1..Len(trace) |-> <<trace[k].job, trace[k].step>>]

\* C19: as long as no rule moves a cursor, the steps executed are, in order,
\* the steps of the jobs of pipeline.runs (a job listed twice runs twice, a
\* declared job that is not listed does not run), or of the declared jobs when
\* pipeline.runs is empty, each job's steps in declaration order; a run that
\* ends after the last job has executed all of them.
C19_ExecutionOrder ==
    (mode = "run" /\ pc \in {"jobs", "steps", "done"} /\ rc # RcTarget /\ NoJumps) =>
      /\ IsPrefix(Executions, StepsInOrder(ListedJobs))
      /\ Completed => Executions = StepsInOrder(ListedJobs)

\* A run of pipeline.runs = j2 j1 j2 that ended after the last job with no
\* jump: j2 ran twice, around j1, and the declared j3 did not run.
C19_Witness ==
    /\ mode = "run" /\ Completed /\ NoJumps
    /\ runs = <<JobName("j2"), JobName("j1"), JobName("j2")>>
    /\ Len(allJobs) = 3
    /\ Len(trace) = 5
    /\ trace[1].job = JobName("j2") /\ trace[5].job = JobName("j2")

\* ---- save_output

\* The step just executed saved its output and one rule of it jumped to a
\* step of its job.
SavedAndJumped ==
    /\ Executed /\ obs.ret = NoRet
    /\ obs.step.save_output # ""
    /\ Len(obs.applied) = 1
    /\ obs.applied[1].action = "goto_step"

\* The name of the step a goto_step rule of the executed step jumped to.
ObsTarget == obs.applied[1].step

\* The command lines of the step named n of the executed step's job, with the
\* placeholders replaced by the values of env.
TargetLines(n, env) ==
    LET i == CHOOSE i \in 1..Len(obs.jobv.steps) : obs.jobv.steps[i].name = n
        cmds == Cmds(obs.jobv.steps[i])
    IN  [k \in 1..Len(cmds) |-> Interpolate(cmds[k].text, env)]

\* C20: save_output stores the trimmed output when the commands of the step
\* have ended, before the rules of the step are evaluated: a rule of the step
\* whose pattern is the placeholder of the variable sees the new value, and the
\* step reached by a goto_step of the step is the next step executed, with its
\* command line interpolated with the saved value.
C20_SavedBeforeRules ==
    [][ /\ (Executed' /\ obs'.step.save_output # "") =>
              /\ vars'[obs'.step.save_output] = TrimSpace(obs'.out)
              /\ (/\ Len(obs'.step.conditions) = 1
                  /\ obs'.step.conditions[1].pattern = <<"{{v}}">>
                  /\ TrimSpace(obs'.out) # <<>>)
                 => Len(obs'.applied) = 1
        /\ (SavedAndJumped /\ Len(trace') = Len(trace) + 1) =>
              /\ trace'[Len(trace')].step = ObsTarget
              /\ trace'[Len(trace')].cmds =
                    TargetLines(ObsTarget,
                       [k \in DOMAIN vars |->
                          IF k = obs.step.save_output THEN TrimSpace(obs.out) ELSE vars[k]])
      ]_vars_all

\* s1 printed a, which the rule of pattern {{v}} matched, and the run jumped
\* over s2 to s3, which ran "b a" (v was b at the start).
C20_Witness ==
    /\ Executed /\ Len(trace) = 2
    /\ trace[1].step = "s1" /\ trace[2].step = "s3"
    /\ Len(trace[1].applied) = 1
    /\ trace[1].applied[1].stage = "legacy"
    /\ trace[1].applied[1].action = "goto_step"
    /\ trace[2].cmds = <<(<<"b", "a">>)>>
    /\ vars["v"] = <<"a">>

\* ---- the command supervisor

SupReturned == sup.phase = "returned"

\* A timer fired or the deadline passed during the supervision.
SupTimerFired == sup.idleC \/ sup.timedOut \/ sup.ctxErr # "none"

\* C15: 124 is returned only for a command that was killed because the idle
\* timer or the deadline fired (a command that exits with 124 by itself is the
\* subject of C17); a command that ends by itself with status c returns c, 0
\* with no error; an error of the start or of the wait, with no timer involved,
\* returns 1.
C15_ExitCodeFaithful ==
    SupReturned =>
      /\ (sup.ret = TimeoutCode /\ ~(sup.cause = "natural" /\ sup.status = TimeoutCode))
            => sup.cause \in {"group", "shell"}
      /\ (sup.cause = "natural" /\ sup.waitRes # "other") =>
            /\ sup.ret = sup.status
            /\ sup.err <=> sup.status # 0
      /\ ((~sup.spawned \/ sup.waitRes = "other") /\ ~SupTimerFired) => sup.ret = 1

\* C16: when the supervisor takes the case of the idle timer or of the
\* deadline, it has sent the kill to the whole process group when it starts to
\* wait for the command, and if the command was still running the result is
\* 124.
C16_TimeoutKillsGroup ==
    (sup.phase \in {"waiting", "after", "returned"} /\ sup.took \in {"idle", "ctx"}) =>
      /\ sup.groupKill
      /\ (SupReturned /\ sup.alive) => sup.ret = TimeoutCode

\* C17: the result of a command that exits with 124 by itself, no timer having
\* fired, is not what the interpreter takes for a timeout.
C17_TimeoutDistinguished ==
    (/\ SupReturned
     /\ sup.cause = "natural" /\ sup.status = TimeoutCode
     /\ ~SupTimerFired)
    => ~TimedOutResult(sup.ret, sup.err)

\* ---- targets that cannot be resolved, rules that are malformed

JobNames(list) == {list[i].name : i \in 1..Len(list)}

\* The i-th rule the executed step applied is a goto_job whose target is in
\* neither list of jobs.
UnresolvedJump(i) ==
    /\ obs.applied[i].action = "goto_job"
    /\ obs.applied[i].job # <<>>
    /\ obs.applied[i].job \notin JobNames(allJobs)
    /\ obs.applied[i].job \notin JobNames(execJobs)

\* C21: a goto_job whose target is neither in the working list nor declared
\* ends the run with exit code 6: it is the last rule applied, it leaves the
\* working list and the cursors as they were, and the run is over; a
\* pipeline.runs entry that names an undeclared job ends the run with 6 before
\* any step is executed.
C21_UnresolvedJobAborts ==
    /\ Executed =>
         \A i \in 1..Len(obs.applied) :
            UnresolvedJump(i) =>
              /\ Aborted(RcTarget)
              /\ i = Len(obs.applied)
              /\ obs.applied[i].sizeAfter = obs.applied[i].sizeBefore
              /\ Len(obs.applied) = 1 =>
                    execJobs = obs.before /\ ji = obs.from /\ si = obs.at
    /\ (/\ mode = "run" /\ pc \notin {"start", "order"}
        /\ \E i \in 1..Len(runs) : runs[i] \notin JobNames(allJobs))
       => Aborted(RcTarget) /\ trace = <<>> /\ execJobs = <<>>

\* A step jumped, by its only rule, to the job jx that is declared nowhere:
\* the run is over with exit code 6 and the working list is as it was.
C21_Witness ==
    /\ Executed /\ Aborted(RcTarget)
    /\ Len(obs.applied) = 1 /\ UnresolvedJump(1)
    /\ obs.applied[1].job = <<"jx">>
    /\ execJobs = obs.before /\ Len(execJobs) >= 2

\* The action keywords of the specification.
ActionKeywords == {"continue", "drop", "goto_step", "goto_job", "fail"}

\* A rule with an unknown action keyword, or a jump without its target field.
Malformed(r) ==
    \/ r.action \notin ActionKeywords
    \/ r.action = "goto_step" /\ r.step = ""
    \/ r.action = "goto_job" /\ r.job = <<>>

\* C22: a rule that is applied (legacy, when, else_action or on_timeout) and
\* is malformed ends the run with exit code 6: it is the last rule applied and
\* it does not change the length of the working list; when the rule the
\* specification prescribes for the step (legacy, when or else_action) is
\* malformed, the run is over with 6 and the working list and the cursors are
\* as they were before the step.
C22_MalformedRuleAborts ==
    Executed =>
      /\ \A i \in 1..Len(obs.applied) :
            Malformed(obs.applied[i]) =>
              /\ Aborted(RcTarget)
              /\ i = Len(obs.applied)
              /\ obs.applied[i].sizeAfter = obs.applied[i].sizeBefore
      /\ (/\ PatternsCompile
          /\ Prescribed.stage \in {"legacy", "when", "else"}
          /\ Malformed(Prescribed))
         => /\ Aborted(RcTarget)
            /\ Len(obs.applied) = 1
            /\ execJobs = obs.before /\ ji = obs.from /\ si = obs.at

\* The else_action of a step is an unknown keyword and no rule matched: the
\* run is over with exit code 6.
C22_Witness ==
    /\ Executed /\ Aborted(RcTarget)
    /\ Prescribed.stage = "else" /\ Prescribed.action = "bogus"
    /\ Len(obs.applied) = 1 /\ obs.applied[1].stage = "else"
    /\ execJobs = obs.before

\* ---- the step type

\* A step type that is declared and is not "command" in any case.
Unsupported(step) == step.type # "" /\ ToLower(step.type) # "command"

\* The step cursor is on a step of the current job.
AtStep == pc = "steps" /\ si < Len(CurJob(Cur).steps)

\* The (job, step) pairs before the position of the cursors in the working
\* list.
BeforeCursor ==
    StepsInOrder(SubSeq(execJobs, 1, ji))
    \o [i \in 1..si |-> <<CurJob(Cur).name, CurJob(Cur).steps[i].name>>]

\* C23: when the cursor reaches a step of unsupported type, the next thing
\* that happens is the end of the run with exit code 4, and no command of the
\* step is run; a run ends with 4 only on such a step, and when no rule
\* jumped, the steps before it in the working list, and no others, were
\* executed.
C23_UnsupportedTypeAborts ==
    /\ [][(AtStep /\ Unsupported(CurJob(Cur).steps[si + 1]))
            => (Aborted(RcUnsupported)' /\ trace' = trace /\ si' = si /\ ji' = ji)
         ]_vars_all
    /\ [](Aborted(RcUnsupported) =>
            /\ Unsupported(CurJob(Cur).steps[si + 1])
            /\ NoJumps => Executions = BeforeCursor)

\* The run executed s1 and s2 of j1 and ended with 4 on the step of j2, whose
\* type is ssh.
C23_Witness ==
    /\ Aborted(RcUnsupported)
    /\ ji = 1 /\ si = 0
    /\ CurJob(Cur).steps[1].type = "ssh"
    /\ Len(trace) = 2
    /\ execJobs[1].steps[2].type = "COMMAND"

\* ---- steps with several commands

\* The executed step has several commands.
SeveralCommands == Executed /\ Len(obs.step.commands) >= 2

RECURSIVE Concat(_)
\* The outputs of the commands of the executed step, one after the other.
Concat(rs) == IF rs = <<>> THEN <<>> ELSE rs[1].out \o Concat(Tail(rs))

\* The when-rule w has the operator op and no other.
OnlyOp(w, op) ==
    /\ (w.contains # <<>>) <=> (op = "contains")
    /\ (w.equals # <<>>) <=> (op = "equals")
    /\ (w.regex # <<>>) <=> (op = "regex")
    /\ w.hasExit <=> (op = "exit_code")

\* C24: every command of a step with several commands is run, in order,
\* whether or not an earlier one failed; an exit_code when-rule is applied
\* exactly when the exit code of the last command is its operand, whatever
\* the other commands returned; contains, equals, regex and the legacy
\* patterns are tested on the outputs of all the commands, concatenated.
C24_LastCodeAllOutput ==
    SeveralCommands =>
      LET n    == Len(obs.step.commands)
          rs   == obs.results
          all  == Concat(rs)
          last == rs[n].code
      IN  /\ Len(rs) = n
          /\ trace[Len(trace)].cmds =
                [i \in 1..n |-> Interpolate(obs.step.commands[i].text, vars)]
          /\ \A i \in 1..n : rs[i] \in obs.step.commands[i].outcomes
          /\ \A k \in 1..Len(obs.step.when) :
                LET w == obs.step.when[k]
                IN  /\ OnlyOp(w, "exit_code") =>
                          ((k \in WhenApplied) <=> (last = w.exit_code))
                    /\ OnlyOp(w, "contains") =>
                          ((k \in WhenApplied) <=> Contains(all, w.contains))
                    /\ OnlyOp(w, "equals") =>
                          ((k \in WhenApplied) <=> (TrimSpace(all) = TrimSpace(w.equals)))
                    /\ OnlyOp(w, "regex") =>
                          ((k \in WhenApplied) <=> RegexMatch(w.regex, all))
          /\ \A k \in 1..Len(obs.step.conditions) :
                (\E a \in Range(AppliedOf("legacy")) : a.idx = k)
                <=> RegexMatch(obs.step.conditions[k].pattern, all)

\* The first command failed, the second was run and succeeded, and the rule
\* exit_code: 0 was applied.
C24_Witness ==
    /\ SeveralCommands
    /\ obs.results[1].code = 1 /\ obs.results[2].code = 0
    /\ Len(obs.step.when) = 1 /\ OnlyOp(obs.step.when[1], "exit_code")
    /\ obs.step.when[1].exit_code = 0
    /\ 1 \in WhenApplied
    /\ obs.err

\* ---- the timeout of a step with several commands

\* C25: the timeout of a step is a budget for the whole step: no command of
\* the step is running later than StepTimeout after the first command
\* started, and no command ends by itself after that time.
C25_TimeoutSpansStep ==
    /\ sup.phase = "running" => sup.now <= StepTimeout
    /\ \A i \in 1..Len(sup.codes) :
          sup.codes[i] # TimeoutCode => sup.ends[i] <= StepTimeout

\* ---- the diagnostic message of an abort

IsSuffix(s, t) == Len(s) <= Len(t) /\ SubSeq(t, Len(t) - Len(s) + 1, Len(t)) = s

\* C26: when the run ends with 4, 5, 6 or 7, the diagnostic message is the
\* last line that was appended to the log buffer (and to run.log when the log
\* is streamed), whether or not the step is silent.
C26_AbortIsLogged ==
    FailedRun =>
      /\ IsSuffix(DiagLine, logBuf)
      /\ (persistLogs /\ disk.file) => IsSuffix(DiagLine, disk.content)
      /\ Executed => obs.logged[Len(obs.logged)] = DiagLine

\* A silent step whose legacy condition decided fail: the run ended with 7
\* and the message is in the buffer.
C26_Witness ==
    /\ FailedRun /\ rc = RcFail
    /\ Executed /\ obs.step.silent
    /\ Len(obs.applied) = 1 /\ obs.applied[1].stage = "legacy"
    /\ IsSuffix(DiagLine, logBuf)

\* ---- the supervisor returns

\* C29: with an idle timeout or a total timeout, the supervisor of a started
\* command returns in the end, whether or not the process ends by itself (the
\* process writes finitely often); once it waits for the process after a
\* timer case, it returns in the end.
C29_SupervisorReturns ==
    /\ (sup.spawned /\ (sup.idle \/ sup.total)) ~> SupReturned
    /\ (sup.phase = "waiting") ~> SupReturned

\* The supervisor returned 124 for a process that was killed after the
\* deadline passed, with both timeouts set and the idle timer never taken.
C29_Witness ==
    /\ SupReturned /\ sup.ret = TimeoutCode
    /\ sup.idle /\ sup.total
    /\ sup.took = "ctx" /\ sup.alive
    /\ sup.cause = "shell"

\* ---- the output readers

\* A reader holds a chunk it has not finished writing to the sink.
ReaderBusy(st) == sup.reader[st] \in {"got", "writing"}

\* C27: when the supervisor has returned, every chunk the process wrote is in
\* the sink and no reader holds a chunk or is writing; so what the interpreter
\* reads is everything the process wrote.
C27_OutputCompleteAtReturn ==
    /\ sup.returned =>
         /\ sup.sink = sup.written
         /\ \A st \in Streams : ~ReaderBusy(st)
    /\ sup.used => sup.seen = sup.written

\* C28: the two readers are never inside a write to the sink at the same
\* time.
C28_SinkWritesExclusive ==
    ~(sup.reader["stdout"] = "writing" /\ sup.reader["stderr"] = "writing")

\* ---- the jump to a job

\* The rules the k-th executed step applied that jumped to a job: a goto_job
\* whose target was found, in a step that did not end the run.
JobJumps(k) ==
    {i \in 1..Len(trace[k].applied) :
        /\ trace[k].ret = NoRet
        /\ trace[k].applied[i].action = "goto_job"
        /\ trace[k].applied[i].found >= 0}

\* The step executed after the k-th is the first step of the job the rule a
\* jumped to, at the index the target was found at.
LandsOn(k, a) ==
    /\ trace[k + 1].at = 0
    /\ trace[k + 1].from = a.found
    /\ trace[k + 1].job = a.job
    /\ trace[k + 1].step = a.tsteps[1]

\* C30: after a step decided goto_job, the step loop of its job is
\* over, the job cursor is at the target job (with or without a resume job
\* inserted), and the step executed next is the first step of the target job.
C30_JumpLandsOnTarget ==
    /\ \A k \in 1..(Len(trace) - 1) : \A i \in JobJumps(k) :
          LandsOn(k, trace[k].applied[i])
    /\ (Executed /\ pc = "steps" /\ JobJumps(Len(trace)) # {}) => LeavesJob

\* ---- the working job list only grows

RECURSIVE Embeds(_, _)
\* The entries of s are in t, in the same order (s is a subsequence of t).
Embeds(s, t) ==
    IF s = <<>> THEN TRUE
    ELSE IF t = <<>> THEN FALSE
    ELSE IF Head(s) = Head(t) THEN Embeds(Tail(s), Tail(t))
    ELSE Embeds(s, Tail(t))

\* C31: no step of the run removes an entry of the working job list or
\* changes the order of its entries; a decision continue, goto_step, drop or
\* fail leaves its length as it is, and a goto_job decision adds at most two
\* entries; without a goto_job decision the list is unchanged.
C31_ListOnlyGrows ==
    [][ /\ pc # "order" => Embeds(execJobs, execJobs')
        /\ Executed' =>
             /\ \A i \in 1..Len(obs'.applied) :
                  LET a == obs'.applied[i]
                  IN  /\ a.sizeAfter >= a.sizeBefore
                      /\ a.sizeAfter <= a.sizeBefore + 2
                      /\ a.action # "goto_job" => a.sizeAfter = a.sizeBefore
             /\ (\A i \in 1..Len(obs'.applied) : obs'.applied[i].action # "goto_job")
                   => execJobs' = execJobs
      ]_vars_all

\* A goto_job to a declared job outside the working list, from a step that is
\* not the last of its job: the target and a resume job were added.
C31_Witness ==
    /\ Executed /\ obs.ret = NoRet
    /\ Len(obs.applied) = 1
    /\ obs.applied[1].action = "goto_job"
    /\ obs.applied[1].sizeAfter = obs.applied[1].sizeBefore + 2
    /\ Len(execJobs) = Len(obs.before) + 2
    /\ Embeds(obs.before, execJobs)

\* ---- the resume job

\* The name of a resume job: the name of a job, "-resume-" and a time.
IsResumeName(name) == Len(name) >= 2 /\ name[Len(name) - 1] = "-resume-"

\* The (1-based) positions of the resume jobs of a working list.
Resumes(list) == {i \in 1..Len(list) : IsResumeName(list[i].name)}

\* The steps that follow the executed step in its job.
ObsRestSteps == SubSeq(obs.jobv.steps, obs.at + 2, Len(obs.jobv.steps))

\* The rules of the executed step that jumped to a job.
ObsJobJumps ==
    {i \in 1..Len(obs.applied) :
        obs.applied[i].action = "goto_job" /\ obs.applied[i].found >= 0}

\* C32: a goto_job taken from the last step of a job inserts no resume job; a
\* goto_job taken from an earlier step inserts exactly one, directly after the
\* target job, and its steps are the steps after the jumping step, in order.
C32_ResumeJobPlacedAfterTarget ==
    (Executed /\ obs.ret = NoRet) =>
      \A i \in ObsJobJumps :
        LET a == obs.applied[i]
        IN  IF ObsRestSteps = <<>>
            THEN Cardinality(Resumes(execJobs)) = Cardinality(Resumes(obs.before))
            ELSE /\ Cardinality(Resumes(execJobs)) = Cardinality(Resumes(obs.before)) + 1
                 /\ execJobs[a.found + 1].name = a.job
                 /\ a.found + 2 \in Resumes(execJobs)
                 /\ execJobs[a.found + 2].steps = ObsRestSteps

\* How often the job named name was entered and its first step executed.
TimesRun(name) ==
    Cardinality({k \in 1..Len(trace) : trace[k].job = name /\ trace[k].at = 0})

\* C33: the name of a resume job is the name of no declared job and of no
\* other entry of the working job list; no goto_job resolved to a resume job;
\* a resume job is executed at most once, and once when the run completes.
C33_ResumeJobsUniqueOnce ==
    \A i \in Resumes(execJobs) :
       /\ \A d \in 1..Len(allJobs) : allJobs[d].name # execJobs[i].name
       /\ \A j \in 1..Len(execJobs) : j # i => execJobs[j].name # execJobs[i].name
       /\ \A k \in 1..Len(trace) : \A q \in JobJumps(k) :
             trace[k].applied[q].job # execJobs[i].name
       /\ TimesRun(execJobs[i].name) <= 1
       /\ (Completed /\ mode = "run") => TimesRun(execJobs[i].name) = 1

\* ---- the jump to a job at or before the current job

\* The step just executed applied one rule, a goto_job that resolved to an
\* entry of the working list at or before the current job.
BackJump ==
    /\ Executed /\ obs.ret = NoRet
    /\ Len(obs.applied) = 1
    /\ obs.applied[1].action = "goto_job"
    /\ obs.applied[1].found >= 0
    /\ obs.applied[1].found <= obs.from

\* The index of the current job after a jump back: that of the target when
\* the job jumped to itself, else its index moved by the resume job.
BackJumpHome ==
    IF obs.applied[1].found = obs.from THEN obs.from
    ELSE obs.from + (IF ObsRestSteps # <<>> THEN 1 ELSE 0)

\* The first entry of the execution order that has a step with a rule, and
\* the steps with a rule of that entry.
HasRule(st) ==
    \/ st.conditions # <<>> \/ st.when # <<>>
    \/ st.else_action # "" \/ st.on_timeout # ""
RuleSteps(job) == {i \in 1..Len(job.steps) : HasRule(job.steps[i])}
Order == ExecOrder(allJobs, runs)
FirstRuled == Min({i \in 1..Len(Order) : RuleSteps(Order[i]) # {}})

\* The run repeats one jump back for ever: the run is a run of an execution
\* order whose names are declared; the first job with a rule has one step with
\* a rule, an else_action goto_job whose target is that job or an entry before
\* it; the commands of the steps up to there exit with 0 and have no rule.
RepeatsBackJump ==
    /\ mode = "run"
    /\ \A i \in 1..Len(runs) : NamedIn(allJobs, runs[i]) # {}
    /\ \E i \in 1..Len(Order) : RuleSteps(Order[i]) # {}
    /\ LET job == Order[FirstRuled]
       IN  /\ Cardinality(RuleSteps(job)) = 1
           /\ LET st == job.steps[Min(RuleSteps(job))]
              IN  /\ st.conditions = <<>> /\ st.when = <<>>
                  /\ st.else_action = "goto_job"
                  /\ NamedIn(Order, st.else_job) # {}
                  /\ Min(NamedIn(Order, st.else_job)) <= FirstRuled
    /\ \A i \in 1..FirstRuled : \A k \in 1..Len(Order[i].steps) :
          LET st == Order[i].steps[k]
          IN  /\ StepPrecheck(st) = NoRet
              /\ \A o \in st.command.outcomes : o.code = 0

\* The jumping step of such a run is the last step of its job.
RepeatsFromLastStep ==
    Min(RuleSteps(Order[FirstRuled])) = Len(Order[FirstRuled].steps)

\* How often a step of the run applied a rule.
TimesJumped == Cardinality({k \in 1..Len(trace) : trace[k].applied # <<>>})

\* C34, as stated: after a goto_job to an entry at or before the current job,
\* the current job is in the working list, ahead of the job cursor, at or
\* behind the target and behind the resume job; a run that takes the same
\* jump back each time does not end, and its working list has one resume job
\* for each repetition.
C34_BackJumpRepeatsAndGrows ==
    /\ BackJump =>
         /\ ji = obs.applied[1].found - 1 /\ LeavesJob
         /\ execJobs[BackJumpHome + 1] = obs.jobv
         /\ BackJumpHome >= obs.applied[1].found
    /\ RepeatsBackJump =>
         /\ pc # "done"
         /\ Cardinality(Resumes(execJobs)) = TimesJumped

\* C34 amended: as stated, with a resume job for each repetition when the
\* jumping step is not the last step of its job, and no resume job at all
\* when it is; the resume job is directly behind the target, and the current
\* job behind it unless it is the target itself.
C34_BackJumpRepeats ==
    /\ BackJump =>
         /\ ji = obs.applied[1].found - 1 /\ LeavesJob
         /\ execJobs[BackJumpHome + 1] = obs.jobv
         /\ BackJumpHome >= obs.applied[1].found
         /\ Len(execJobs) = Len(obs.before) + (IF ObsRestSteps # <<>> THEN 1 ELSE 0)
         /\ ObsRestSteps # <<>> =>
              /\ obs.applied[1].found + 2 \in Resumes(execJobs)
              /\ BackJumpHome # obs.applied[1].found + 1
    /\ RepeatsBackJump =>
         /\ pc # "done"
         /\ Cardinality(Resumes(execJobs)) =
               IF RepeatsFromLastStep THEN 0 ELSE TimesJumped

\* The job jumped back, to itself or to an entry before it, from the middle of
\* its steps, for the third time in a run that repeats the jump: three resume
\* jobs.
C34_Witness ==
    /\ BackJump /\ RepeatsBackJump
    /\ ObsRestSteps # <<>>
    /\ TimesJumped = 3
    /\ Cardinality(Resumes(execJobs)) = 3

\* ---- the jobs that a jump passes over

\* The first rule the k-th executed step applied is a goto_job that resolved
\* to an entry of the working list behind the next job.
JumpsOver(k) ==
    /\ trace[k].applied # <<>>
    /\ trace[k].applied[1].action = "goto_job"
    /\ trace[k].applied[1].found >= trace[k].from + 2
    /\ trace[k].list[trace[k].applied[1].found + 1] = trace[k].applied[1].job

\* The indexes of the entries between the job of the k-th executed step and
\* the target of its jump.
PassedOver(k) == (trace[k].from + 1)..(trace[k].applied[1].found - 1)

\* The q-th executed step is a step of an entry the k-th passed over.
RunsPassedOver(k, q) ==
    \E p \in PassedOver(k) :
       trace[q].from = p /\ trace[q].job = trace[k].list[p + 1]

\* The goto_job rules applied after the first rule of the k-th executed step
\* and before the q-th executed step.
LaterJobJumps(k, q) ==
    {a \in UNION {Range(trace[m].applied) : m \in (k + 1)..(q - 1)}
            \cup Range(Tail(trace[k].applied)) :
        a.action = "goto_job" /\ a.found >= 0}

\* C35, as stated: after a goto_job to an entry behind the next job, no step
\* of an entry between the current job and the target is executed, unless a
\* later goto_job names one of these entries.
C35_PassedOverUnlessNamed ==
    \A k \in 1..Len(trace) : \A q \in (k + 1)..Len(trace) :
       (JumpsOver(k) /\ RunsPassedOver(k, q)) =>
          \E a \in LaterJobJumps(k, q) :
             \E p \in PassedOver(k) : a.job = trace[k].list[p + 1]

\* C35 amended: ... unless a later goto_job resolves to an entry before the
\* target (one of the entries passed over, the current job, or an entry
\* before it).
C35_PassedOverUnlessBack ==
    \A k \in 1..Len(trace) : \A q \in (k + 1)..Len(trace) :
       (JumpsOver(k) /\ RunsPassedOver(k, q)) =>
          \E a \in LaterJobJumps(k, q) : a.found < trace[k].applied[1].found

\* A completed run in which s1 of j1 jumped to j3 over j2: the steps of j3
\* and of the resume job were executed after it, and no step of j2.
C35_Witness ==
    /\ Completed /\ mode = "run"
    /\ \E k \in 1..Len(trace) :
          /\ JumpsOver(k) /\ Len(trace[k].applied) = 1
          /\ trace[k].rest # <<>>
          /\ Len(trace) = k + Len(trace[k].applied[1].tsteps) + Len(trace[k].rest)
          /\ \A q \in (k + 1)..Len(trace) : ~RunsPassedOver(k, q)

\* ---- goto_step inside a resume job

\* The rules of the executed step that are a goto_step with a target.
ObsStepJumps ==
    {i \in 1..Len(obs.applied) :
        obs.applied[i].action = "goto_step" /\ obs.applied[i].step # ""}

\* The declared job a resume job was cut from.
ResumedJob(name) == JobNamed(allJobs, SubSeq(name, 1, Len(name) - 2))

\* The names of the steps of a job.
StepNameSet(job) == {job.steps[i].name : i \in 1..Len(job.steps)}

\* The executed step applied one rule and no pattern of it failed to compile.
OnlyRuleApplied == Len(obs.applied) = 1 /\ PatternsCompile

\* C36: in a resume job a goto_step is resolved against the steps of the
\* resume job only: a goto_step to a step of the resume job moves the step
\* cursor there; a goto_step to a step of the job it was cut from that is not
\* in the resume job (the jumping step or a step before it) aborts the run
\* with exit code 6; the same goto_step executed in the job itself, without a
\* jump to a job before it, does not abort.
C36_ResumeJobScopesGotoStep ==
    Executed =>
      \A i \in ObsStepJumps :
         LET t == obs.applied[i].step
         IN  IF IsResumeName(obs.job)
             THEN /\ obs.jobv.steps =
                       SubSeq(ResumedJob(obs.job).steps,
                              Len(ResumedJob(obs.job).steps) - Len(obs.jobv.steps) + 1,
                              Len(ResumedJob(obs.job).steps))
                  /\ (t \in StepNameSet(ResumedJob(obs.job)) \ StepNameSet(obs.jobv))
                        => Aborted(RcTarget)
                  /\ (t \in StepNameSet(obs.jobv) /\ OnlyRuleApplied)
                        => /\ obs.ret = NoRet
                           /\ si + 1 \in 1..Len(obs.jobv.steps)
                           /\ obs.jobv.steps[si + 1].name = t
             ELSE (t \in StepNameSet(obs.jobv) /\ OnlyRuleApplied)
                        => /\ obs.ret = NoRet
                           /\ si + 1 \in 1..Len(obs.jobv.steps)
                           /\ obs.jobv.steps[si + 1].name = t

\* s3, executed in the resume job of j1 after s2 jumped to j2, jumped to s1
\* or s2: the run ended with 6.
C36_Witness ==
    /\ Executed /\ IsResumeName(obs.job)
    /\ Aborted(RcTarget)
    /\ Len(obs.applied) = 1
    /\ obs.applied[1].action = "goto_step"
    /\ obs.applied[1].step \in StepNameSet(ResumedJob(obs.job)) \ StepNameSet(obs.jobv)

\* ---- termination without jumps back

\* The k-th executed step is before the q-th in the execution order.
Before(k, q) ==
    \/ trace[k].from < trace[q].from
    \/ trace[k].from = trace[q].from /\ trace[k].at < trace[q].at

\* C37: with no goto_job rule and every goto_step to a later step of the
\* job, the run ends, the working list is the execution order throughout, and
\* the steps are executed in the order of the list, each at most once for
\* each occurrence of its job.
C37_ForwardRunsTerminate ==
    /\ [](/\ pc \in {"jobs", "steps"} => execJobs = Order
          /\ \A k \in 1..Len(trace) : \A q \in (k + 1)..Len(trace) : Before(k, q))
    /\ <>(pc = "done")

\* A completed run without goto_job in which s1 jumped to s3: s1, s3 and the
\* step of j2 were executed, once each.
C37_Witness ==
    /\ ForwardOnly /\ Completed
    /\ Len(trace) = 3
    /\ trace[1].applied # <<>>
    /\ trace[1].applied[1].action = "goto_step"
    /\ trace[2].at = 2
    /\ trace[3].from = 1

\* ---- the cursors stay in range

\* C38: when the job loop is about to fetch a job the job cursor is not
\* negative (and the loop fetches only below the length of the list); in the
\* step loop the step cursor is not negative, the job cursor is not below -1,
\* and the job pointer is inside the array; every executed step was fetched
\* at an index of its job; every goto_job resolved to an index of the list.
C38_CursorsInRange ==
    /\ pc = "jobs" => ji >= 0
    /\ pc = "steps" =>
         /\ si >= 0
         /\ ji >= -1
         /\ jobLive => jobIdx \in 0..(Len(execJobs) - 1)
    /\ Executed =>
         /\ obs.at \in 0..(Len(obs.jobv.steps) - 1)
         /\ obs.jobv.steps[obs.at + 1] = obs.step
         /\ \A i \in ObsJobJumps :
               obs.applied[i].found \in 0..(obs.applied[i].sizeAfter - 1)

\* A step applied two legacy conditions, a goto_job to the first job of the
\* list and a goto_step to the first step: the step loop goes on at step 0
\* with the job cursor at -1.
C38_Witness ==
    /\ Executed /\ obs.ret = NoRet
    /\ Len(obs.applied) = 2
    /\ obs.applied[1].action = "goto_job" /\ obs.applied[1].found = 0
    /\ obs.applied[2].action = "goto_step"
    /\ pc = "steps" /\ ji = -1 /\ si = 0

\* ---- the variable environment during the run

\* C39: from the start of the run on, a transition changes the variable
\* environment only if it executes a step with save_output, and then the
\* save_output key has the trimmed combined output of the step, whatever the
\* exit codes of its commands and whatever its rules decided, and every other
\* key has the value it had; every other transition leaves the environment
\* as it is.
C39_OnlySaveOutputWrites ==
    [][ IF Len(trace') > Len(trace) /\ obs'.step.save_output # ""
        THEN /\ DOMAIN vars' = DOMAIN vars \cup {obs'.step.save_output}
             /\ vars'[obs'.step.save_output] = TrimSpace(obs'.out)
             /\ \A k \in DOMAIN vars : k # obs'.step.save_output => vars'[k] = vars[k]
        ELSE vars' = vars
      ]_vars_all

\* A step whose command was ended by the timeout saved its output, that ends
\* with a blank, under the new key w, and its else_action jumped: w holds the
\* output without the blank and v is as it was.
C39_Witness ==
    /\ Executed /\ obs.ret = NoRet
    /\ obs.step.save_output = "w"
    /\ obs.code = TimeoutCode
    /\ obs.out = <<"a", " ">>
    /\ Len(obs.applied) = 1 /\ obs.applied[1].action = "goto_step"
    /\ vars = [k \in {"v", "w"} |-> IF k = "w" THEN <<"a">> ELSE <<"b">>]

\* ---- the channels of the supervisor

\* The supervisor has left its select loop.
LoopEnded == sup.super # "select"

\* Both readers and the goroutine of cmd.Wait() have returned.
TasksFinished ==
    /\ \A st \in Streams : sup.task[st] = "stopped"
    /\ sup.waiter = "finished"

\* C40: a reader that is about to notify the activity goes on to its next
\* read whatever the channel holds, and the channel never holds more than one
\* notification; when the goroutine of cmd.Wait() is about to send its result
\* the channel done has room for it; and once the supervisor has left its
\* select loop both readers and the goroutine of cmd.Wait() return, in every
\* interleaving.
C40_TasksNeverBlock ==
    /\ [](/\ \A st \in Streams :
               sup.task[st] = "notify" => NotifyActivity(sup, st).task[st] = "read"
          /\ sup.activity \in 0..ActivityCap
          /\ sup.waiter = "send" => sup.done < DoneCap)
    /\ (LoopEnded ~> TasksFinished)

\* The supervisor has returned, a reader found the channel full after the
\* supervisor had left the loop and dropped its notification, the
\* notification that was pending is still in the channel, and both readers
\* and the goroutine of cmd.Wait() have returned.
C40_Witness ==
    /\ sup.super = "returned"
    /\ sup.lateDrop
    /\ sup.activity = ActivityCap
    /\ TasksFinished

====
